---- MODULE Spec2Model ----
(***************************************************************************)
(* A model of the PDF transcreation pipeline: the extract-pdf route (text  *)
(* layer parse, OCR fallback, normalisation, truncation, document cache),  *)
(* the transcreate route, the generate-audio route and the SQLite store    *)
(* they share.  Strings are sequences of one-character strings.            *)
(***************************************************************************)
EXTENDS Integers, Sequences, FiniteSets, TLC

VARIABLES
    documents,      \* table documents, in rowid order
    transcreations, \* table transcreations, in rowid order
    audio_files,    \* table audio_files, in rowid order
    sqlite_sequence, \* AUTOINCREMENT: the largest id each table ever handed out
    now,            \* the last CURRENT_TIMESTAMP the store handed out (seconds)
    tempDir,        \* the files of <cwd>/temp: path -> content
    nowMs,          \* the last Date.now() a request read (milliseconds)
    reqs,           \* the request handlers: what each is doing, what it answered
    budget,         \* the workload: the calls clients may still make, per route
    tText,          \* truncation harness: the text handed to a truncation site
    tOut,           \* truncation harness: what the site produced
    pStream,        \* parser harness: the items the text-layer parser delivers
    pOut,           \* parser harness: the settled promise of the extraction
    wizard          \* the page of the browser: its React state, its fetches in flight

store == <<documents, transcreations, audio_files, sqlite_sequence, now>>

server == <<documents, transcreations, audio_files, sqlite_sequence, now, tempDir, nowMs, reqs, budget>>

harness == <<tText, tOut, pStream, pOut>>

vars == <<server, harness, wizard>>

(***************************************************************************)
(* Strings                                                                 *)
(***************************************************************************)
Rep(c, n) == [i \in 1..n |-> c]

MinOf(a, b) == IF a < b THEN a ELSE b

MaxOf(a, b) == IF a > b THEN a ELSE b

Whitespace == {" ", "\n", "\t"}

\* String.prototype.trim
Trim(s) ==
    LET n  == Len(s)
        lo == IF \A i \in 1..n : s[i] \in Whitespace THEN n + 1
              ELSE CHOOSE i \in 1..n :
                      s[i] \notin Whitespace /\ \A j \in 1..(i-1) : s[j] \in Whitespace
        hi == IF lo > n THEN 0
              ELSE CHOOSE i \in lo..n :
                      s[i] \notin Whitespace /\ \A j \in (i+1)..n : s[j] \in Whitespace
    IN  SubSeq(s, lo, hi)

\* String.prototype.substring(0, n)
Substring0(s, n) == SubSeq(s, 1, MinOf(MaxOf(n, 0), Len(s)))

\* String.prototype.lastIndexOf(c): a 0-based index, -1 when c is absent
LastIndexOf(s, c) ==
    IF \A i \in 1..Len(s) : s[i] # c THEN -1
    ELSE (CHOOSE i \in 1..Len(s) : s[i] = c /\ \A j \in (i+1)..Len(s) : s[j] # c) - 1

(***************************************************************************)
(* Normalisation: cleanAndProcessText, extract-pdf/route.ts 77-91          *)
(***************************************************************************)
\* \w of the regular expressions, over the characters the model uses
WordChars == {"a", "b", "x", "y", "z", "0", "_"}

SentencePunct == {".", "!", "?"}

\* the allow-list of the third replace: \w \s . , ! ? - ( ) [ ] : " '
Allowed ==
    WordChars \cup Whitespace \cup SentencePunct
        \cup {",", "-", "(", ")", "[", "]", ":", "\"", "'"}

\* a replace pass marks the characters it deletes with "" and Compact drops them
Compact(marked) == SelectSeq(marked, LAMBDA c : c # "")

\* replace(/C+/g, r): every maximal run of characters of class C becomes r
CollapseRuns(s, C, r) ==
    Compact([i \in 1..Len(s) |->
                IF s[i] \notin C THEN s[i]
                ELSE IF i > 1 /\ s[i-1] \in C THEN "" ELSE r])

\* the first character after position i that is not whitespace ("" at the end)
RECURSIVE NextNonSpace(_, _)
NextNonSpace(s, i) ==
    IF i >= Len(s) THEN ""
    ELSE IF s[i+1] \in Whitespace THEN NextNonSpace(s, i + 1) ELSE s[i+1]

\* the last character before position i that is not whitespace ("" at the start)
RECURSIVE PrevNonSpace(_, _)
PrevNonSpace(s, i) ==
    IF i <= 1 THEN ""
    ELSE IF s[i-1] \in Whitespace THEN PrevNonSpace(s, i - 1) ELSE s[i-1]

\* replace(/[^\w\s\.\,\!\?\-\(\)\[\]\:\"\']/g, ' ')
StripSpecial(s) == [i \in 1..Len(s) |-> IF s[i] \in Allowed THEN s[i] ELSE " "]

\* replace(/\s+([\.!\?])/g, '$1')
DropSpaceBeforePunct(s) ==
    Compact([i \in 1..Len(s) |->
                IF s[i] \in Whitespace /\ NextNonSpace(s, i) \in SentencePunct
                THEN "" ELSE s[i]])

\* replace(/([\.!\?])\s*/g, '$1 '): slot 2i-1 holds character i unless it is
\* whitespace the match swallows, slot 2i the space put after a punctuation mark
OneSpaceAfterPunct(s) ==
    Compact([k \in 1..(2 * Len(s)) |->
                LET i == (k + 1) \div 2
                IN  IF k % 2 = 1
                    THEN IF s[i] \in Whitespace /\ PrevNonSpace(s, i) \in SentencePunct
                         THEN "" ELSE s[i]
                    ELSE IF s[i] \in SentencePunct THEN " " ELSE ""])

cleanAndProcessText(text) ==
    Trim(OneSpaceAfterPunct(DropSpaceBeforePunct(StripSpecial(
        CollapseRuns(CollapseRuns(text, Whitespace, " "), {"\n"}, "\n")))))

(***************************************************************************)
(* Truncation: extract-pdf/route.ts 249-263, generate-audio/route.ts 37-55 *)
(***************************************************************************)
MAX_CHARS == 2200

MAX_CHARS_AUDIO == 2000

Ellipsis == <<".", ".", ".">>

\* a faulty variant: the cut keeps one character more than the budget
TruncateExtractedOffByOne(cleanedText) ==
    IF Len(cleanedText) > MAX_CHARS
    THEN LET truncated  == Substring0(cleanedText, MAX_CHARS + 1)
             lastPeriod == LastIndexOf(truncated, ".")
         IN  [finalText    |-> IF lastPeriod > 0
                               THEN Substring0(truncated, lastPeriod + 1)
                               ELSE truncated,
              wasTruncated |-> TRUE]
    ELSE [finalText |-> cleanedText, wasTruncated |-> FALSE]

\* a faulty variant: a full stop that is the first character counts too
TruncateExtractedAnyPeriod(cleanedText) ==
    IF Len(cleanedText) > MAX_CHARS
    THEN LET truncated  == Substring0(cleanedText, MAX_CHARS)
             lastPeriod == LastIndexOf(truncated, ".")
         IN  [finalText    |-> IF lastPeriod >= 0
                               THEN Substring0(truncated, lastPeriod + 1)
                               ELSE truncated,
              wasTruncated |-> TRUE]
    ELSE [finalText |-> cleanedText, wasTruncated |-> FALSE]

\* the extraction path: cut at the budget, back up to the last full stop
TruncateExtracted(cleanedText) ==
    IF Len(cleanedText) > MAX_CHARS
    THEN LET truncated  == Substring0(cleanedText, MAX_CHARS)
             lastPeriod == LastIndexOf(truncated, ".")
         IN  [finalText    |-> IF lastPeriod > 0
                               THEN Substring0(truncated, lastPeriod + 1)
                               ELSE truncated,
              wasTruncated |-> TRUE]
    ELSE [finalText |-> cleanedText, wasTruncated |-> FALSE]

\* a faulty variant: a mark at exactly 70% of the budget is taken too
TruncateForSpeechInclusive(text) ==
    IF Len(text) > MAX_CHARS_AUDIO
    THEN LET truncated       == Substring0(text, MAX_CHARS_AUDIO)
             lastSentence    == LastIndexOf(truncated, ".")
             lastQuestion    == LastIndexOf(truncated, "?")
             lastExclamation == LastIndexOf(truncated, "!")
             cutPoint == MaxOf(lastSentence, MaxOf(lastQuestion, lastExclamation))
         IN  IF cutPoint * 10 >= MAX_CHARS_AUDIO * 7
             THEN Substring0(truncated, cutPoint + 1)
             ELSE truncated \o Ellipsis
    ELSE text

\* the audio path: cut at the budget, back up to the last . ? ! when it lies
\* beyond 70% of the budget, else keep the hard cut and append "..."
TruncateForSpeech(text) ==
    IF Len(text) > MAX_CHARS_AUDIO
    THEN LET truncated       == Substring0(text, MAX_CHARS_AUDIO)
             lastSentence    == LastIndexOf(truncated, ".")
             lastQuestion    == LastIndexOf(truncated, "?")
             lastExclamation == LastIndexOf(truncated, "!")
             cutPoint == MaxOf(lastSentence, MaxOf(lastQuestion, lastExclamation))
         IN  IF cutPoint * 10 > MAX_CHARS_AUDIO * 7
             THEN Substring0(truncated, cutPoint + 1)
             ELSE truncated \o Ellipsis
    ELSE text

(***************************************************************************)
(* Text-layer extraction: the PdfReader callback, extract-pdf/route.ts     *)
(* 178-224.  The parser calls the callback once per item: an error, a page *)
(* marker, a text item, some other item, or no item at the end of file.    *)
(***************************************************************************)
maxPages == 3

ErrItem(msg)  == [kind |-> "err",  page |-> 0, text |-> <<>>, msg |-> msg]

PageItem(n)   == [kind |-> "page", page |-> n, text |-> <<>>, msg |-> {}]

TextItem(t)   == [kind |-> "text", page |-> 0, text |-> t,    msg |-> {}]

EndItem       == [kind |-> "end",  page |-> 0, text |-> <<>>, msg |-> {}]

\* the closure of the promise executor before the first callback
ParseStart ==
    [text |-> <<>>, pageCount |-> 0, currentPage |-> 0, totalPages |-> 0,
     settled |-> "pending", value |-> <<>>, error |-> {}]

\* resolve / reject settle the promise once; later calls are no-ops
Resolve(st, v) ==
    IF st.settled = "pending" THEN [st EXCEPT !.settled = "resolved", !.value = v]
    ELSE st

Reject(st, msg) ==
    IF st.settled = "pending" THEN [st EXCEPT !.settled = "rejected", !.error = msg]
    ELSE st

\* a faulty variant: the page cap is compared one page too late
ParseCallbackCapOffByOne(st, item) ==
    IF item.kind = "err" THEN Reject(st, item.msg)
    ELSE IF item.kind = "end"
    THEN Resolve([st EXCEPT !.totalPages = st.pageCount], Trim(st.text))
    ELSE LET paged == IF item.kind = "page" /\ item.page # 0
                      THEN [st EXCEPT !.currentPage = item.page,
                                      !.pageCount = MaxOf(st.pageCount, item.page)]
                      ELSE st
         IN  IF item.kind = "page" /\ item.page # 0 /\ paged.currentPage > maxPages + 1
             THEN Resolve([paged EXCEPT !.totalPages = paged.pageCount], Trim(paged.text))
             ELSE IF item.kind = "text" /\ item.text # <<>>
                     /\ paged.currentPage <= maxPages + 1
             THEN [paged EXCEPT !.text = paged.text \o item.text \o <<" ">>]
             ELSE paged

\* one call of the callback (err, item)
ParseCallback(st, item) ==
    IF item.kind = "err" THEN Reject(st, item.msg)
    ELSE IF item.kind = "end"
    THEN Resolve([st EXCEPT !.totalPages = st.pageCount], Trim(st.text))
    ELSE LET paged == IF item.kind = "page" /\ item.page # 0
                      THEN [st EXCEPT !.currentPage = item.page,
                                      !.pageCount = MaxOf(st.pageCount, item.page)]
                      ELSE st
         IN  IF item.kind = "page" /\ item.page # 0 /\ paged.currentPage > maxPages
             THEN Resolve([paged EXCEPT !.totalPages = paged.pageCount], Trim(paged.text))
             ELSE IF item.kind = "text" /\ item.text # <<>>
                     /\ paged.currentPage <= maxPages
             THEN [paged EXCEPT !.text = paged.text \o item.text \o <<" ">>]
             ELSE paged

\* the callback applied to the first n items of a stream
RECURSIVE ParseItems(_, _)
ParseItems(items, n) ==
    IF n = 0 THEN ParseStart
    ELSE ParseCallback(ParseItems(items, n - 1), items[n])

\* parseBuffer: every item of the stream is delivered
ParseBuffer(items) == ParseItems(items, Len(items))

(***************************************************************************)
(* The store: lib/database, README.md 115-274.  A table is the sequence of *)
(* its rows in rowid order; ids are handed out in increasing order and,    *)
(* the keys being AUTOINCREMENT, never handed out twice.                   *)
(***************************************************************************)
NoRow == [id |-> 0]

\* documentQueries.findByFilename.get(name): SELECT * FROM documents WHERE
\* filename = ?  -- the first row of a scan in rowid order, if any
FindByFilename(name) ==
    LET rows == SelectSeq(documents, LAMBDA d : d.filename = name)
    IN  IF rows = <<>> THEN NoRow ELSE rows[1]

\* documentQueries.insert.run(...): the table after the insert (no query of
\* the routes reads created_at of a document, so the row leaves it out)
InsertDocument(filename, original_filename, file_size, extracted_text, page_count, extracted_pages) ==
    Append(documents,
           [id |-> sqlite_sequence.documents + 1, filename |-> filename,
            original_filename |-> original_filename, file_size |-> file_size,
            extracted_text |-> extracted_text, page_count |-> page_count,
            extracted_pages |-> extracted_pages])

\* sqlite_sequence after `table` became `rows`: the id of the last row when
\* it is beyond the largest id handed out so far
Handed(table, rows) ==
    IF rows # <<>> /\ rows[Len(rows)].id > sqlite_sequence[table]
    THEN [sqlite_sequence EXCEPT ![table] = rows[Len(rows)].id]
    ELSE sqlite_sequence

(***************************************************************************)
(* Requests.  A handler runs from one await to the next in one step.       *)
(***************************************************************************)
MaxReq == 2

Handlers == 1..MaxReq

NoResp == [status |-> 0]

NoTrace ==
    [parses |-> 0, ocrs |-> 0, writes |-> 0, external |-> 0, inserts |-> 0,
     lookups |-> 0, known |-> {}, textLayer |-> -1, pages |-> <<>>,
     texts |-> <<>>, sources |-> {}, upstream |-> "none"]

IdleReq ==
    [route |-> "none", pc |-> "idle", in |-> <<>>, loc |-> <<>>,
     resp |-> NoResp, trace |-> NoTrace]

Free(r) == reqs[r].pc \in {"idle", "done"}

\* the handler a new request gets: handlers are alike, so the first free one
FreeHandler ==
    IF \E r \in Handlers : Free(r)
    THEN CHOOSE r \in Handlers : Free(r) /\ \A o \in 1..(r-1) : ~Free(o)
    ELSE 0

Answer(q, resp) == [q EXCEPT !.pc = "done", !.resp = resp]

ErrorResponse(status, error) == [status |-> status, error |-> error]

(***************************************************************************)
(* extract-pdf/route.ts: POST                                              *)
(***************************************************************************)
MinFileSize == 100

MaxFileSize == 10 * 1024 * 1024

MinTextLength == 50

PdfMagic == <<"%", "P", "D", "F">>

NoFile == [present |-> FALSE]

\* Uploaded files.  The bytes of a file decide its header, the items the
\* text-layer parser delivers, and what rendering and recognising each page
\* gives; a request carries the name of the content.
Scan(text) == [render |-> "ok", ocr |-> "ok", text |-> text]

\* one page whose text layer is exactly at the OCR threshold
FiftyPdf ==
    [header |-> PdfMagic,
     items  |-> <<PageItem(1), TextItem(Rep("a", MinTextLength)), EndItem>>,
     scan   |-> <<Scan(Rep("a", MinTextLength))>>]

\* one page whose text layer is one character short of it once trimmed
ShortPdf ==
    [header |-> PdfMagic,
     items  |-> <<PageItem(1), TextItem(Rep("a", MinTextLength - 1) \o <<" ">>), EndItem>>,
     scan   |-> <<Scan(<<"x", " ", "y", ".", "z", "\n">>)>>]

\* five pages, more text than the budget on the first, a full stop inside it
LongPdf ==
    [header |-> PdfMagic,
     items  |-> <<PageItem(1),
                  TextItem(Rep("a", MAX_CHARS - 700) \o <<".">> \o Rep("b", 800)),
                  PageItem(2), PageItem(3), TextItem(<<"x">>),
                  PageItem(4), TextItem(<<"y">>), PageItem(5), EndItem>>,
     scan   |-> <<>>]

\* a scan with nothing on it
BlankPdf ==
    [header |-> PdfMagic,
     items  |-> <<PageItem(1), EndItem>>,
     scan   |-> <<Scan(<<" ">>), Scan(<<>>)>>]

\* bytes that are not a PDF
NotPdf ==
    [header |-> <<"h", "e", "l", "l">>, items |-> <<>>, scan |-> <<>>]

\* a scan on which the recogniser sees nothing but marks the normaliser drops
MarksPdf ==
    [header |-> PdfMagic,
     items  |-> <<PageItem(1), EndItem>>,
     scan   |-> <<Scan(<<"#", "\n">>)>>]

\* the parser fails on the first item: the file is encrypted
LockedPdf ==
    [header |-> PdfMagic,
     items  |-> <<ErrItem({"password"})>>,
     scan   |-> <<>>]

\* the parser fails after it delivered the marker of page 4
LatePdf ==
    [header |-> PdfMagic,
     items  |-> <<PageItem(1), TextItem(Rep("a", MinTextLength)), PageItem(4),
                  ErrItem({})>>,
     scan   |-> <<>>]

\* three pages: the first cannot be rendered, the second cannot be
\* recognised, the third can
PatchyPdf ==
    [header |-> PdfMagic,
     items  |-> <<PageItem(1), PageItem(2), PageItem(3), EndItem>>,
     scan   |-> <<[render |-> "fail", ocr |-> "fail", text |-> <<>>],
                  [render |-> "ok", ocr |-> "fail", text |-> <<>>],
                  Scan(<<"y", ".">>)>>]

\* three pages that can all be read
ThreePdf ==
    [header |-> PdfMagic,
     items  |-> <<PageItem(1), PageItem(2), PageItem(3), EndItem>>,
     scan   |-> <<Scan(<<"x">>), Scan(<<" ">>), Scan(<<"z", "\n">>)>>]

Pdf(content) ==
    CASE content = "fifty" -> FiftyPdf
      [] content = "short" -> ShortPdf
      [] content = "long"  -> LongPdf
      [] content = "blank" -> BlankPdf
      [] content = "notpdf" -> NotPdf
      [] content = "marks" -> MarksPdf
      [] content = "locked" -> LockedPdf
      [] content = "late" -> LatePdf
      [] content = "patchy" -> PatchyPdf
      [] content = "three" -> ThreePdf

\* does rendering page n of the content give an image (else convert throws)
Renders(content, n) ==
    n <= Len(Pdf(content).scan) /\ Pdf(content).scan[n].render = "ok"

\* does recognising the image of page n give text (else recognize throws)
Recognizes(content, n) == Pdf(content).scan[n].ocr = "ok"

PageText(content, n) == Pdf(content).scan[n].text

\* the catch block, 290-329: the answer for a thrown Error whose message
\* includes the substrings `has` (of those the block looks for)
ExtractCatch(has) ==
    IF "PDF header" \in has
    THEN ErrorResponse(400, "Invalid PDF file format. Please ensure you uploaded a valid PDF.")
    ELSE IF "Password" \in has \/ "password" \in has
    THEN ErrorResponse(400, "Password-protected PDFs are not supported")
    ELSE IF "meaningful text" \in has \/ "image-based" \in has
    THEN ErrorResponse(400, "Could not extract text from PDF. The PDF might be image-based or contain mostly graphics.")
    ELSE IF "empty" \in has \/ "corrupted" \in has
    THEN ErrorResponse(400, "PDF file appears to be corrupted or empty")
    ELSE ErrorResponse(500, "Failed to process PDF. Please ensure the PDF contains selectable text and try again.")

\* 146-155: the answer from the document cache
CachedDocumentResponse(existingDoc) ==
    [status |-> 200, text |-> existingDoc.extracted_text,
     pages |-> existingDoc.page_count,
     extractedPages |-> existingDoc.extracted_pages,
     extractedLength |-> Len(existingDoc.extracted_text),
     originalLength |-> Len(existingDoc.extracted_text),
     filename |-> existingDoc.original_filename,
     documentId |-> existingDoc.id, cached |-> TRUE]

\* 144: existingDoc && existingDoc.file_size === file.size
IsCacheHit(existingDoc, file) ==
    existingDoc.id # 0 /\ existingDoc.file_size = file.size

\* a faulty variant: the cache is consulted before the upload is validated
ExtractReceiveCacheFirst(file) ==
    LET fresh       == [IdleReq EXCEPT !.route = "extract", !.in = file]
        looked      == [fresh EXCEPT !.trace.lookups = @ + 1]
        existingDoc == IF file.present THEN FindByFilename(file.name) ELSE NoRow
    IN  IF ~file.present
        THEN Answer(fresh, ErrorResponse(400, "No file provided"))
        ELSE IF IsCacheHit(existingDoc, file)
        THEN Answer(looked, CachedDocumentResponse(existingDoc))
        ELSE IF file.type # "application/pdf"
        THEN Answer(looked, ErrorResponse(400, "File must be a PDF"))
        ELSE IF file.size > MaxFileSize
        THEN Answer(looked, ErrorResponse(400, "File size must be less than 10MB"))
        ELSE IF file.size < MinFileSize
        THEN Answer(looked, ErrorResponse(400, "File appears to be corrupted or empty"))
        ELSE [looked EXCEPT !.pc = "buffer"]

\* 100-156: validation and the cache check, run when the form data arrived
ExtractReceive(file) ==
    LET fresh == [IdleReq EXCEPT !.route = "extract", !.in = file]
    IN  IF ~file.present
        THEN Answer(fresh, ErrorResponse(400, "No file provided"))
        ELSE IF file.type # "application/pdf"
        THEN Answer(fresh, ErrorResponse(400, "File must be a PDF"))
        ELSE IF file.size > MaxFileSize
        THEN Answer(fresh, ErrorResponse(400, "File size must be less than 10MB"))
        ELSE IF file.size < MinFileSize
        THEN Answer(fresh, ErrorResponse(400, "File appears to be corrupted or empty"))
        ELSE LET existingDoc == FindByFilename(file.name)
                 looked      == [fresh EXCEPT !.trace.lookups = @ + 1]
             IN  IF IsCacheHit(existingDoc, file)
                 THEN Answer(looked, CachedDocumentResponse(existingDoc))
                 ELSE [looked EXCEPT !.pc = "buffer"]

\* the rows of the key (filename, size) when the request checked the cache
KnownDocuments(file) ==
    IF ~file.present THEN {}
    ELSE {documents[i].id : i \in {j \in 1..Len(documents) :
              /\ documents[j].filename = file.name
              /\ documents[j].file_size = file.size}}

ExtractBegin(r, file) ==
    /\ r = FreeHandler
    /\ budget.extract > 0
    /\ budget' = [budget EXCEPT !.extract = @ - 1]
    /\ reqs' = [reqs EXCEPT ![r] =
                  [ExtractReceive(file) EXCEPT
                      !.trace.known = KnownDocuments(file)]]
    /\ UNCHANGED <<store, tempDir, nowMs, harness, wizard>>

\* a faulty variant: the fallback is taken for 50 characters too
NeedsOCRInclusive(extractedText) == Len(Trim(extractedText)) <= MinTextLength

\* 229: extractedText.trim().length < 50
NeedsOCR(extractedText) == Len(Trim(extractedText)) < MinTextLength

\* 243-263: normalise and truncate
ProcessText(extractedText) ==
    LET cleanedText == cleanAndProcessText(extractedText)
        cut         == TruncateExtracted(cleanedText)
    IN  [originalLength |-> Len(cleanedText), finalText |-> cut.finalText,
         wasTruncated |-> cut.wasTruncated]

\* a faulty variant: the fresh answer is labelled as coming from the cache
FreshDocumentResponseAsCached(file, done, totalPages, documentId) ==
    [status |-> 200, text |-> done.finalText, pages |-> totalPages,
     extractedPages |-> IF totalPages > 3 THEN 3 ELSE totalPages,
     originalLength |-> done.originalLength,
     extractedLength |-> Len(done.finalText),
     wasTruncated |-> done.wasTruncated,
     filename |-> file.name, documentId |-> documentId, cached |-> TRUE]

\* 278-289: the answer of a fresh extraction
FreshDocumentResponse(file, done, totalPages, documentId) ==
    [status |-> 200, text |-> done.finalText, pages |-> totalPages,
     extractedPages |-> IF totalPages > 3 THEN 3 ELSE totalPages,
     originalLength |-> done.originalLength,
     extractedLength |-> Len(done.finalText),
     wasTruncated |-> done.wasTruncated,
     filename |-> file.name, documentId |-> documentId, cached |-> FALSE]

\* 243-289: normalise, truncate, store the document, answer
StoreAndAnswer(q, extractedText, totalPages) ==
    LET done     == ProcessText(extractedText)
        inserted == InsertDocument(q.in.name, q.in.name, q.in.size, done.finalText,
                                   totalPages,
                                   IF totalPages > 3 THEN 3 ELSE totalPages)
        documentId == inserted[Len(inserted)].id
    IN  [req |-> Answer([q EXCEPT !.trace.inserts = @ + 1],
                        FreshDocumentResponse(q.in, done, totalPages, documentId)),
         documents |-> inserted]

\* a faulty variant: the document is stored before the extraction is known
\* to have given a text
FailedButStored(q, resp) ==
    [req |-> Answer(q, resp),
     documents |-> InsertDocument(q.in.name, q.in.name, q.in.size, <<>>, 0, 0)]

\* an error answer: nothing is stored
Failed(q, resp) == [req |-> Answer(q, resp), documents |-> documents]

PdfPath(ms, filename) == [kind |-> "pdf", ms |-> ms, name |-> filename, page |-> 0]

PagePath(pageNum) == [kind |-> "png", ms |-> 0, name |-> "page", page |-> pageNum]

WriteFile(dir, path, data) ==
    [p \in DOMAIN dir \cup {path} |-> IF p = path THEN data ELSE dir[p]]

Unlink(dir, path) == [p \in DOMAIN dir \ {path} |-> dir[p]]

\* 10-33: extractTextWithOCR up to its first await; ms is Date.now()
OcrStart(q, totalPages, ms) ==
    LET tempPdfPath == PdfPath(ms, q.in.name)
    IN  [req |-> [q EXCEPT !.pc = "convert",
                           !.loc = [tempPdfPath |-> tempPdfPath, pageNum |-> 1,
                                    extractedText |-> <<>>,
                                    totalPages |-> totalPages],
                           !.trace.ocrs = @ + 1, !.trace.writes = @ + 1],
         tempDir |-> WriteFile(tempDir, tempPdfPath, [pdf |-> q.in.pdf, page |-> 0])]

\* of the substrings the catch block of POST looks for, those the message
\* 'Failed to extract text using OCR' of line 68 includes: none
OcrFailedMessage == {}

\* 18-23 and 66-74: writeFileSync throws: the catch of extractTextWithOCR
\* throws its own Error, the finally block removes whatever is at the path,
\* and the catch block of POST answers
OcrThrow(q, totalPages, ms) ==
    LET tempPdfPath == PdfPath(ms, q.in.name)
    IN  [req |-> Answer([q EXCEPT !.loc = [tempPdfPath |-> tempPdfPath, pageNum |-> 1,
                                           extractedText |-> <<>>,
                                           totalPages |-> totalPages],
                                  !.trace.ocrs = @ + 1],
                        ExtractCatch(OcrFailedMessage)),
         tempDir |-> IF tempPdfPath \in DOMAIN tempDir
                     THEN Unlink(tempDir, tempPdfPath) ELSE tempDir]

\* can writing to the temp directory fail under the workload (a full disk)
DiskOutcomes(workload) == IF workload = "checks" THEN {TRUE, FALSE} ELSE {TRUE}

\* 158-241: the buffer arrived: header check, text-layer parse, threshold
ExtractParse(r) ==
    /\ reqs[r].route = "extract" /\ reqs[r].pc = "buffer"
    /\ LET q   == reqs[r]
           pdf == Pdf(q.in.pdf)
       IN  IF q.in.size = 0
           THEN /\ reqs' = [reqs EXCEPT ![r] = Answer(q, ExtractCatch({"empty"}))]
                /\ UNCHANGED <<store, tempDir, nowMs>>
           ELSE IF pdf.header # PdfMagic
           THEN /\ reqs' = [reqs EXCEPT ![r] = Answer(q, ExtractCatch({"PDF header"}))]
                /\ UNCHANGED <<store, tempDir, nowMs>>
           ELSE LET st == ParseBuffer(pdf.items)
                    qp == [q EXCEPT !.trace.parses = @ + 1,
                                    !.trace.textLayer =
                                        IF st.settled = "resolved"
                                        THEN Len(Trim(st.value)) ELSE -1]
                IN  IF st.settled = "rejected"
                    THEN /\ reqs' = [reqs EXCEPT ![r] = Answer(qp, ExtractCatch(st.error))]
                         /\ UNCHANGED <<store, tempDir, nowMs>>
                    ELSE IF st.settled = "pending"
                    THEN /\ reqs' = [reqs EXCEPT ![r] = [qp EXCEPT !.pc = "hung"]]
                         /\ UNCHANGED <<store, tempDir, nowMs>>
                    ELSE IF NeedsOCR(st.value)
                    THEN \E ms \in {nowMs, nowMs + 1}, written \in DiskOutcomes(budget.name) :
                            LET o == IF written THEN OcrStart(qp, st.totalPages, ms)
                                     ELSE OcrThrow(qp, st.totalPages, ms)
                            IN  /\ reqs' = [reqs EXCEPT ![r] = o.req]
                                /\ tempDir' = o.tempDir
                                /\ nowMs' = ms
                                /\ UNCHANGED store
                    ELSE LET o == StoreAndAnswer(qp, st.value, st.totalPages)
                         IN  /\ reqs' = [reqs EXCEPT ![r] = o.req]
                             /\ documents' = o.documents
                             /\ sqlite_sequence' = Handed("documents", o.documents)
                             /\ UNCHANGED <<transcreations, audio_files, now, tempDir, nowMs>>
    /\ UNCHANGED <<budget, harness, wizard>>

\* a faulty variant: the temporary PDF is removed only when no text was read
OcrFinishKeepsFile(q, dir) ==
    LET ocrText == Trim(q.loc.extractedText)
        swept   == IF q.loc.tempPdfPath \in DOMAIN dir /\ ocrText = <<>>
                   THEN Unlink(dir, q.loc.tempPdfPath) ELSE dir
        o == IF Len(Trim(ocrText)) = 0
             THEN Failed(q, ErrorResponse(400, "Could not extract text from PDF. The document may be empty, corrupted, or an unsupported format."))
             ELSE StoreAndAnswer(q, ocrText, q.loc.totalPages)
    IN  [req |-> o.req, documents |-> o.documents, tempDir |-> swept]

\* 64-75 and 233-289: the page loop is over: return, finally, and the caller
OcrFinish(q, dir) ==
    LET ocrText == Trim(q.loc.extractedText)
        swept   == IF q.loc.tempPdfPath \in DOMAIN dir
                   THEN Unlink(dir, q.loc.tempPdfPath) ELSE dir
        o == IF Len(Trim(ocrText)) = 0
             THEN Failed(q, ErrorResponse(400, "Could not extract text from PDF. The document may be empty, corrupted, or an unsupported format."))
             ELSE StoreAndAnswer(q, ocrText, q.loc.totalPages)
    IN  [req |-> o.req, documents |-> o.documents, tempDir |-> swept]

\* a faulty variant: the loop ends after the second page
AfterPageStopsEarly(q, dir) ==
    IF q.loc.pageNum < 2
    THEN [req |-> [q EXCEPT !.pc = "convert", !.loc.pageNum = @ + 1],
          documents |-> documents, tempDir |-> dir]
    ELSE OcrFinish(q, dir)

\* 36, 58-62: on to the next page, or out of the loop
AfterPage(q, dir) ==
    IF q.loc.pageNum < 3
    THEN [req |-> [q EXCEPT !.pc = "convert", !.loc.pageNum = @ + 1],
          documents |-> documents, tempDir |-> dir]
    ELSE OcrFinish(q, dir)

Commit(r, o) ==
    /\ reqs' = [reqs EXCEPT ![r] = o.req]
    /\ documents' = o.documents
    /\ sqlite_sequence' = Handed("documents", o.documents)
    /\ tempDir' = o.tempDir
    /\ UNCHANGED <<transcreations, audio_files, now, nowMs, budget, harness, wizard>>

\* 39: await convert(pageNum): the page of the temporary PDF becomes page.N.png
OcrConvert(r) ==
    /\ reqs[r].route = "extract" /\ reqs[r].pc = "convert"
    /\ LET q    == [reqs[r] EXCEPT !.trace.pages = Append(@, reqs[r].loc.pageNum)]
           path == q.loc.tempPdfPath
           n    == q.loc.pageNum
       IN  IF path \notin DOMAIN tempDir \/ ~Renders(tempDir[path].pdf, n)
           THEN Commit(r, AfterPage(q, tempDir))
           ELSE Commit(r, [req |-> [q EXCEPT !.pc = "recognize",
                                             !.trace.sources = @ \cup {tempDir[path].pdf}],
                           documents |-> documents,
                           tempDir |-> WriteFile(tempDir, PagePath(n),
                                          [pdf |-> tempDir[path].pdf, page |-> n])])

\* 43-56: await tesseract.recognize(result.path), then the clean-up
OcrRecognize(r) ==
    /\ reqs[r].route = "extract" /\ reqs[r].pc = "recognize"
    /\ LET q     == reqs[r]
           image == PagePath(q.loc.pageNum)
       IN  IF image \notin DOMAIN tempDir
              \/ ~Recognizes(tempDir[image].pdf, tempDir[image].page)
           THEN Commit(r, AfterPage(q, tempDir))
           ELSE LET pageText == PageText(tempDir[image].pdf, tempDir[image].page)
                    qt == [q EXCEPT !.trace.texts = Append(@, pageText),
                                    !.trace.sources = @ \cup {tempDir[image].pdf}]
                    q2 == IF Trim(pageText) # <<>>
                          THEN [qt EXCEPT !.loc.extractedText =
                                   @ \o Trim(pageText) \o <<"\n", "\n">>]
                          ELSE qt
                IN  Commit(r, AfterPage(q2, Unlink(tempDir, image)))

(***************************************************************************)
(* The store, continued: transcreations and audio_files.  created_at is    *)
(* CURRENT_TIMESTAMP, in whole seconds: inserts of one second get the same *)
(* one.  Foreign keys are enforced: an insert whose parent row is missing  *)
(* throws.                                                                 *)
(***************************************************************************)
Rows(table) == {table[i] : i \in 1..Len(table)}

\* ORDER BY created_at DESC LIMIT 1 over `rows`: a row none of the others is
\* newer than; which one of several rows of one second, SQL leaves open
Newest(rows) ==
    {row \in rows : \A other \in rows : other.created_at <= row.created_at}

\* WHERE document_id = ? AND target_language = ?
TranscreationsOf(documentId, targetLanguage) ==
    {t \in Rows(transcreations) :
        t.document_id = documentId /\ t.target_language = targetLanguage}

\* a faulty variant: ORDER BY created_at ASC
FindByDocumentAndLanguageAsc(documentId, targetLanguage) ==
    {row \in TranscreationsOf(documentId, targetLanguage) :
        \A other \in TranscreationsOf(documentId, targetLanguage) :
            row.created_at <= other.created_at}

\* transcreationQueries.findByDocumentAndLanguage.get(documentId, language):
\* the rows the query may return, none when no row matches
FindByDocumentAndLanguage(documentId, targetLanguage) ==
    Newest(TranscreationsOf(documentId, targetLanguage))

\* WHERE transcreation_id = ?
AudioOf(transcreationId) ==
    {a \in Rows(audio_files) : a.transcreation_id = transcreationId}

\* audioQueries.findByTranscreation.get(transcreationId)
FindByTranscreation(transcreationId) == Newest(AudioOf(transcreationId))

\* transcreationQueries.insert.run(...) at second ts: the table after it
InsertTranscreation(document_id, target_language, transcreated_text, original_length, transcreated_length, ts) ==
    Append(transcreations,
           [id |-> sqlite_sequence.transcreations + 1, document_id |-> document_id,
            target_language |-> target_language,
            transcreated_text |-> transcreated_text,
            original_length |-> original_length,
            transcreated_length |-> transcreated_length, created_at |-> ts])

\* audioQueries.insert.run(...) at second ts: the table after it
InsertAudio(transcreation_id, language, voice_id, audio_size, audio_data, ts) ==
    Append(audio_files,
           [id |-> sqlite_sequence.audio_files + 1, transcreation_id |-> transcreation_id,
            language |-> language, voice_id |-> voice_id,
            audio_size |-> audio_size, audio_data |-> audio_data,
            created_at |-> ts])

\* FOREIGN KEY (document_id) REFERENCES documents (id)
DocumentExists(id) == \E d \in Rows(documents) : d.id = id

\* FOREIGN KEY (transcreation_id) REFERENCES transcreations (id)
TranscreationExists(id) == \E t \in Rows(transcreations) : t.id = id

(***************************************************************************)
(* The transcreate route: POST, generate-audio/route.ts 198-313.  A        *)
(* documentId of 0 stands for a body without documentId.                   *)
(***************************************************************************)
\* the catch block, 283-312, for an Error whose message includes `has`
TranscreateCatch(has) ==
    IF "API_KEY" \in has \/ "401" \in has
    THEN ErrorResponse(401, "Invalid Google API key. Please check your GOOGLE_API_KEY environment variable.")
    ELSE IF "quota" \in has \/ "limit" \in has \/ "429" \in has
    THEN ErrorResponse(429, "API quota exceeded. Please try again later.")
    ELSE IF "model" \in has \/ "Model" \in has
    THEN ErrorResponse(503, "AI model temporarily unavailable. Please try again.")
    ELSE ErrorResponse(500, "Failed to transcreate content. Please try again or contact support.")

\* 225-230
CachedTranscreationResponse(cached) ==
    [status |-> 200, transcreatedText |-> cached.transcreated_text,
     transcreationId |-> cached.id, cached |-> TRUE, tokensUsed |-> 0]

\* 277-282
FreshTranscreationResponse(transcreatedText, transcreationId, totalTokens) ==
    [status |-> 200, transcreatedText |-> transcreatedText,
     transcreationId |-> transcreationId, cached |-> FALSE,
     tokensUsed |-> totalTokens]

\* a faulty variant: the cache is never consulted
SkipsTranscreationCache(body) == FALSE

\* a faulty variant: the cache is consulted without a documentId too
ChecksTranscreationCacheAlways(body) == TRUE

\* 217: if (documentId)
ChecksTranscreationCache(body) == body.documentId # 0

\* 200-257: validation and the cache check, run when the body arrived; a miss
\* sends the prompt to the model
TranscreateBegin(r, body) ==
    /\ r = FreeHandler
    /\ budget.transcreate > 0
    /\ budget' = [budget EXCEPT !.transcreate = @ - 1]
    /\ LET fresh  == [IdleReq EXCEPT !.route = "transcreate", !.in = body,
                         !.trace.known =
                             {t.id : t \in TranscreationsOf(body.documentId,
                                                            body.targetLanguage)}]
           found  == IF ChecksTranscreationCache(body)
                     THEN FindByDocumentAndLanguage(body.documentId, body.targetLanguage)
                     ELSE {}
           looked == IF ChecksTranscreationCache(body)
                     THEN [fresh EXCEPT !.trace.lookups = @ + 1] ELSE fresh
           missed == [looked EXCEPT !.pc = "llm", !.trace.external = @ + 1]
       IN  IF body.text = <<>> \/ body.targetLanguage = ""
           THEN reqs' = [reqs EXCEPT ![r] =
                    Answer(fresh, ErrorResponse(400, "Text and target language are required"))]
           ELSE IF body.apiKey = ""
           THEN reqs' = [reqs EXCEPT ![r] =
                    Answer(fresh, ErrorResponse(400, "Google Gemini API key is required"))]
           ELSE IF found = {}
           THEN reqs' = [reqs EXCEPT ![r] = missed]
           ELSE \E cached \in found :
                    reqs' = [reqs EXCEPT ![r] =
                                Answer(looked, CachedTranscreationResponse(cached))]
    /\ UNCHANGED <<store, tempDir, nowMs, harness, wizard>>

\* 257-282: countTokens and generateContent answered: store, answer
TranscreateDone(r, reply) ==
    /\ reqs[r].route = "transcreate" /\ reqs[r].pc = "llm"
    /\ LET q    == reqs[r]
           body == q.in
       IN  IF ~reply.ok
           THEN /\ reqs' = [reqs EXCEPT ![r] =
                      Answer([q EXCEPT !.trace.upstream = reply.kind],
                             TranscreateCatch(reply.has))]
                /\ UNCHANGED store
           ELSE IF body.documentId = 0
           THEN /\ reqs' = [reqs EXCEPT ![r] =
                      Answer(q, FreshTranscreationResponse(reply.text, 0,
                                                           reply.totalTokens))]
                /\ UNCHANGED store
           ELSE IF ~DocumentExists(body.documentId)
           THEN /\ reqs' = [reqs EXCEPT ![r] = Answer(q, TranscreateCatch({}))]
                /\ UNCHANGED store
           ELSE \E ts \in {now, now + 1} :
                    LET inserted == InsertTranscreation(body.documentId,
                                        body.targetLanguage, reply.text,
                                        Len(body.text), Len(reply.text), ts)
                    IN  /\ transcreations' = inserted
                        /\ sqlite_sequence' = Handed("transcreations", inserted)
                        /\ now' = ts
                        /\ reqs' = [reqs EXCEPT ![r] =
                              Answer([q EXCEPT !.trace.inserts = @ + 1],
                                     FreshTranscreationResponse(reply.text,
                                         inserted[Len(inserted)].id,
                                         reply.totalTokens))]
                        /\ UNCHANGED <<documents, audio_files>>
    /\ UNCHANGED <<tempDir, nowMs, budget, harness, wizard>>

(***************************************************************************)
(* The generate-audio route: POST, generate-audio/route.ts 5-161.  A       *)
(* transcreationId of 0 stands for a body without transcreationId.         *)
(***************************************************************************)
\* the catch block, 131-160, for an Error whose message includes `has`
SynthesizeCatch(has) ==
    IF "Unauthenticated" \in has
    THEN ErrorResponse(401, "Invalid ElevenLabs API key. Please check your key and try again.")
    ELSE IF "quota" \in has \/ "limit" \in has \/ "429" \in has
    THEN ErrorResponse(429, "API quota exceeded. Please try again later.")
    ELSE IF "voice" \in has \/ "Voice" \in has
    THEN ErrorResponse(400, "Voice not found or unavailable")
    ELSE ErrorResponse(500, "Failed to generate audio due to an internal server error.")

\* 58-66
voiceMap(language) ==
    CASE language \in {"Hindi", "Telugu"} -> "pNInz6obpgDQGcFmaJgB"
      [] language \in {"Spanish", "French", "Chinese"} -> "EXAVITQu4vr4xnSDxMaL"
      [] OTHER -> "pNInz6obpgDQGcFmaJgB"

\* 99: the data URL of the bytes; the base64 text stands as the bytes it encodes
AudioData(bytes) == <<"data:audio/mpeg;base64,">> \o bytes

\* a faulty variant: a cache hit is charged one character
CachedAudioResponseCharged(cachedAudio) ==
    [status |-> 200, audioData |-> cachedAudio.audio_data,
     audioId |-> cachedAudio.id, cached |-> TRUE, charactersUsed |-> 1]

\* 28-33
CachedAudioResponse(cachedAudio) ==
    [status |-> 200, audioData |-> cachedAudio.audio_data,
     audioId |-> cachedAudio.id, cached |-> TRUE, charactersUsed |-> 0]

\* 124-129
FreshAudioResponse(audioData, audioId, processedText) ==
    [status |-> 200, audioData |-> audioData, audioId |-> audioId,
     cached |-> FALSE, charactersUsed |-> Len(processedText)]

\* 7-85: validation, the cache check and the truncation, run when the body
\* arrived; a miss sends the text to the speech service
SynthesizeBegin(r, body) ==
    /\ r = FreeHandler
    /\ budget.synthesize > 0
    /\ budget' = [budget EXCEPT !.synthesize = @ - 1]
    /\ LET fresh  == [IdleReq EXCEPT !.route = "synthesize", !.in = body,
                         !.trace.known = {a.id : a \in AudioOf(body.transcreationId)}]
           found  == IF body.transcreationId # 0
                     THEN FindByTranscreation(body.transcreationId) ELSE {}
           looked == IF body.transcreationId # 0
                     THEN [fresh EXCEPT !.trace.lookups = @ + 1] ELSE fresh
           missed == [looked EXCEPT !.pc = "tts", !.trace.external = @ + 1,
                                   !.loc = [processedText |-> TruncateForSpeech(body.text),
                                            voiceId |-> voiceMap(body.language)]]
       IN  IF body.text = <<>> \/ body.language = ""
           THEN reqs' = [reqs EXCEPT ![r] =
                    Answer(fresh, ErrorResponse(400, "Text and language are required"))]
           ELSE IF body.apiKey = ""
           THEN reqs' = [reqs EXCEPT ![r] =
                    Answer(fresh, ErrorResponse(400, "ElevenLabs API key is required"))]
           ELSE IF found = {}
           THEN reqs' = [reqs EXCEPT ![r] = missed]
           ELSE \E cachedAudio \in found :
                    reqs' = [reqs EXCEPT ![r] =
                                IF cachedAudio.audio_data # <<>>
                                THEN Answer(looked, CachedAudioResponse(cachedAudio))
                                ELSE missed]
    /\ UNCHANGED <<store, tempDir, nowMs, harness, wizard>>

\* 75-129: the speech service answered and its stream was read: store, answer
SynthesizeDone(r, reply) ==
    /\ reqs[r].route = "synthesize" /\ reqs[r].pc = "tts"
    /\ LET q    == reqs[r]
           body == q.in
           audioData == AudioData(reply.bytes)
       IN  IF ~reply.ok
           THEN /\ reqs' = [reqs EXCEPT ![r] =
                      Answer([q EXCEPT !.trace.upstream = reply.kind],
                             SynthesizeCatch(reply.has))]
                /\ UNCHANGED store
           ELSE IF body.transcreationId = 0
           THEN /\ reqs' = [reqs EXCEPT ![r] =
                      Answer(q, FreshAudioResponse(audioData, 0, q.loc.processedText))]
                /\ UNCHANGED store
           ELSE IF ~TranscreationExists(body.transcreationId)
           THEN /\ reqs' = [reqs EXCEPT ![r] = Answer(q, SynthesizeCatch({}))]
                /\ UNCHANGED store
           ELSE \E ts \in {now, now + 1} :
                    LET inserted == InsertAudio(body.transcreationId, body.language,
                                        q.loc.voiceId, Len(reply.bytes), audioData, ts)
                    IN  /\ audio_files' = inserted
                        /\ sqlite_sequence' = Handed("audio_files", inserted)
                        /\ now' = ts
                        /\ reqs' = [reqs EXCEPT ![r] =
                              Answer([q EXCEPT !.trace.inserts = @ + 1],
                                     FreshAudioResponse(audioData,
                                         inserted[Len(inserted)].id,
                                         q.loc.processedText))]
                        /\ UNCHANGED <<documents, transcreations>>
    /\ UNCHANGED <<tempDir, nowMs, budget, harness, wizard>>

(***************************************************************************)
(* The server under a workload: what clients send, what the services       *)
(* answer.  A workload names the calls clients may make on each route.     *)
(***************************************************************************)
MaxExtract == 3

MaxTranscreate == 3

MaxSynthesize == 3

Upload(name, size, pdf) ==
    [present |-> TRUE, name |-> name, type |-> "application/pdf", size |-> size,
     pdf |-> pdf]

TranscreateBody(text, targetLanguage, documentId, apiKey) ==
    [text |-> text, targetLanguage |-> targetLanguage, documentId |-> documentId,
     apiKey |-> apiKey]

SynthesizeBody(text, language, transcreationId, apiKey) ==
    [text |-> text, language |-> language, transcreationId |-> transcreationId,
     apiKey |-> apiKey]

Hola == <<"h", "o", "l", "a", ".">>

\* a text longer than the audio budget, its last full stop beyond 70% of it
LongSpeech == Rep("a", MAX_CHARS_AUDIO - 100) \o <<".">> \o Rep("b", 200)

Workloads ==
    {[name |-> "uploads", extract |-> MaxExtract, transcreate |-> 0, synthesize |-> 0],
     [name |-> "long", extract |-> MaxExtract - 1, transcreate |-> 0, synthesize |-> 0],
     [name |-> "checks", extract |-> MaxExtract - 1, transcreate |-> 0, synthesize |-> 0],
     [name |-> "transcreate", extract |-> 1, transcreate |-> MaxTranscreate,
      synthesize |-> 0],
     [name |-> "synthesize", extract |-> 1, transcreate |-> 1,
      synthesize |-> MaxSynthesize]}

NoWorkload == [name |-> "none", extract |-> 0, transcreate |-> 0, synthesize |-> 0]

\* the files the clients of a workload upload
Uploads(workload) ==
    CASE workload = "uploads" ->
            {Upload("a.pdf", 4096, "fifty"), Upload("a.pdf", 8192, "short"),
             Upload("b.pdf", 8192, "blank")}
      [] workload = "long" -> {Upload("b.pdf", 4096, "long")}
      [] workload = "delete" ->
            {Upload("a.pdf", 4096, "fifty"), Upload("a.pdf", 8192, "short")}
      [] workload = "checks" ->
            {Upload("a.pdf", 4096, "fifty"), Upload("a.pdf", 4096, "notpdf"),
             Upload("m.pdf", 4096, "marks"), Upload("l.pdf", 4096, "locked"),
             Upload("l.pdf", 8192, "late"), Upload("p.pdf", 4096, "patchy"),
             Upload("p.pdf", 8192, "three"), NoFile,
             [Upload("a.pdf", 4096, "fifty") EXCEPT !.type = "text/plain"],
             Upload("a.pdf", MaxFileSize + 1, "fifty"),
             Upload("a.pdf", MinFileSize - 1, "fifty")}
      [] OTHER -> {Upload("a.pdf", 4096, "fifty")}

\* the bodies the clients of a workload send to the transcreate route
TranscreateBodies(workload) ==
    CASE workload = "transcreate" ->
            {TranscreateBody(Hola, lang, id, "key") :
                lang \in {"Spanish", "Hindi"}, id \in {0, 1, 2}}
            \cup {TranscreateBody(<<>>, "Spanish", 1, "key"),
                  TranscreateBody(Hola, "", 1, "key"),
                  TranscreateBody(Hola, "Spanish", 1, "")}
      [] workload = "delete" ->
            {TranscreateBody(Hola, "Spanish", id, "key") : id \in {1, 2}}
      [] OTHER -> {TranscreateBody(Hola, "Spanish", 1, "key")}

\* the bodies the clients of a workload send to the generate-audio route
SynthesizeBodies(workload) ==
    CASE workload = "delete" ->
            {SynthesizeBody(Hola, "Spanish", id, "key") : id \in {1, 2}}
      [] OTHER ->
            {SynthesizeBody(Hola, "Spanish", id, "key") : id \in {0, 1, 2}}
            \cup {SynthesizeBody(LongSpeech, "Hindi", 1, "key"),
                  SynthesizeBody(<<>>, "Spanish", 1, "key"),
                  SynthesizeBody(Hola, "", 1, "key"),
                  SynthesizeBody(Hola, "Spanish", 1, "")}

\* an upstream failure: what went wrong, and of the substrings the catch
\* blocks look for, those the message of the thrown Error includes
Failure(kind, has) == [kind |-> kind, has |-> has]

\* failures of the language model: the message names the kind; a quota
\* message may quote the key, a message about the model may mention a limit
ModelFailures ==
    {Failure("auth", {"API_KEY"}), Failure("quota", {"quota"}),
     Failure("unavailable", {"model"}), Failure("other", {}),
     Failure("quota", {"quota", "API_KEY"}),
     Failure("unavailable", {"model", "limit"})}

\* what the language model may answer: the token count of the prompt and a
\* text, or an error
ModelReplies ==
    {[ok |-> TRUE, text |-> t, totalTokens |-> 43, has |-> {}, kind |-> "none"] :
        t \in {<<"o", "l", "a">>, <<"n", "a", "m", "a">>}}
    \cup {[ok |-> FALSE, text |-> <<>>, totalTokens |-> 0, has |-> f.has,
            kind |-> f.kind] : f \in ModelFailures}

\* failures of the speech service: a message about a voice may mention a
\* limit (the voice limit of the plan)
SpeechFailures ==
    {Failure("auth", {"Unauthenticated"}), Failure("quota", {"quota"}),
     Failure("unavailable", {"voice"}), Failure("other", {}),
     Failure("unavailable", {"voice", "limit"})}

\* what the speech service may answer: the bytes of its stream, or an error
SpeechReplies ==
    {[ok |-> TRUE, bytes |-> b, has |-> {}, kind |-> "none"] :
        b \in {<<"m1">>, <<"m2", "m3">>}}
    \cup {[ok |-> FALSE, bytes |-> <<>>, has |-> f.has, kind |-> f.kind] :
            f \in SpeechFailures}

(***************************************************************************)
(* The wizard (src/app/page.tsx): the state of the page                    *)
(***************************************************************************)
Steps == <<"setup", "upload", "language", "results", "audio">>

\* a null id is 0, a null language is "", a null pdfInfo is the empty sequence
NoId == 0

NoLanguage == ""

NoPdfInfo == <<>>

\* pending, fetches, cleared and last are not state of the page: the fetches
\* that have not settled yet, how many fetches were started, whether resetApp
\* ran and no upload was started since, and what the last thing that ran was
WizardStart ==
    [currentStep |-> "setup", extractedText |-> <<>>, selectedLanguage |-> NoLanguage,
     transcreatedText |-> <<>>, audioUrl |-> "", isProcessing |-> FALSE, error |-> "",
     documentId |-> NoId, transcreationId |-> NoId, geminiApiKey |-> "",
     elevenlabsApiKey |-> "", estimatedTokens |-> 0, geminiTokensUsed |-> 0,
     elevenlabsCharsUsed |-> 0, pdfInfo |-> NoPdfInfo,
     pending |-> {}, fetches |-> 0, cleared |-> FALSE,
     last |-> [op |-> "none", ok |-> TRUE]]

WizardIdle == wizard = WizardStart

ParseNotRun == [ParseStart EXCEPT !.settled = "idle"]

NotRun == [site |-> "none", out |-> <<>>, wasTruncated |-> FALSE]

HarnessIdle ==
    /\ tText = <<>>
    /\ tOut = NotRun
    /\ pStream = <<>>
    /\ pOut = ParseNotRun

ServerIdle ==
    /\ documents = <<>>
    /\ transcreations = <<>>
    /\ audio_files = <<>>
    /\ sqlite_sequence = [documents |-> 0, transcreations |-> 0, audio_files |-> 0]
    /\ now = 0
    /\ tempDir = <<>>
    /\ nowMs = 0
    /\ reqs = [r \in Handlers |-> IdleReq]

Init ==
    /\ ServerIdle
    /\ WizardIdle
    /\ budget \in Workloads
    /\ HarnessIdle

Next ==
    \/ \E r \in Handlers, file \in Uploads(budget.name) : ExtractBegin(r, file)
    \/ \E r \in Handlers : ExtractParse(r)
    \/ \E r \in Handlers : OcrConvert(r)
    \/ \E r \in Handlers : OcrRecognize(r)
    \/ \E r \in Handlers, body \in TranscreateBodies(budget.name) :
          TranscreateBegin(r, body)
    \/ \E r \in Handlers, reply \in ModelReplies : TranscreateDone(r, reply)
    \/ \E r \in Handlers, body \in SynthesizeBodies(budget.name) :
          SynthesizeBegin(r, body)
    \/ \E r \in Handlers, reply \in SpeechReplies : SynthesizeDone(r, reply)

Spec == Init /\ [][Next]_vars

(***************************************************************************)
(* The server with documentQueries.delete, README.md 232-234: no route     *)
(* calls it, a maintenance client of lib/database does.                    *)
(***************************************************************************)
MaxDelete == 2

DeleteWorkload ==
    [name |-> "delete", extract |-> 2, transcreate |-> 1, synthesize |-> 1,
     delete |-> MaxDelete]

\* a faulty variant: the foreign key of transcreations does not cascade
NoCascade(documentId) == {}

\* FOREIGN KEY (document_id) REFERENCES documents (id) ON DELETE CASCADE: the
\* ids of the transcreations that go with the document
CascadeOfDocument(documentId) ==
    {t.id : t \in {row \in Rows(transcreations) : row.document_id = documentId}}

\* documentQueries.delete.run(id): DELETE FROM documents WHERE id = ?, and
\* the cascades of the two foreign keys
DeleteDocument(id) ==
    /\ budget.name = "delete" /\ budget.delete > 0
    /\ budget' = [budget EXCEPT !.delete = @ - 1]
    /\ LET gone == CascadeOfDocument(id)
       IN  /\ documents' = SelectSeq(documents, LAMBDA d : d.id # id)
           /\ transcreations' = SelectSeq(transcreations, LAMBDA t : t.id \notin gone)
           /\ audio_files' =
                 SelectSeq(audio_files, LAMBDA a : a.transcreation_id \notin gone)
    /\ UNCHANGED <<sqlite_sequence, now, tempDir, nowMs, reqs, harness, wizard>>

\* transcreationQueries.delete.run(id), README.md 255-257, and the cascade of
\* the foreign key of audio_files
DeleteTranscreation(id) ==
    /\ budget.name = "delete" /\ budget.delete > 0
    /\ budget' = [budget EXCEPT !.delete = @ - 1]
    /\ transcreations' = SelectSeq(transcreations, LAMBDA t : t.id # id)
    /\ audio_files' = SelectSeq(audio_files, LAMBDA a : a.transcreation_id # id)
    /\ UNCHANGED <<documents, sqlite_sequence, now, tempDir, nowMs, reqs, harness, wizard>>

\* audioQueries.delete.run(id), README.md 271-273
DeleteAudio(id) ==
    /\ budget.name = "delete" /\ budget.delete > 0
    /\ budget' = [budget EXCEPT !.delete = @ - 1]
    /\ audio_files' = SelectSeq(audio_files, LAMBDA a : a.id # id)
    /\ UNCHANGED <<documents, transcreations, sqlite_sequence, now, tempDir, nowMs,
                   reqs, harness, wizard>>

InitDelete ==
    /\ ServerIdle
    /\ WizardIdle
    /\ budget = DeleteWorkload
    /\ HarnessIdle

\* ids a client may ask to delete: those handed out and one never handed out
NextDelete ==
    \/ Next
    \/ \E id \in 1..(sqlite_sequence.documents + 1) : DeleteDocument(id)
    \/ \E id \in 1..sqlite_sequence.transcreations : DeleteTranscreation(id)
    \/ \E id \in 1..sqlite_sequence.audio_files : DeleteAudio(id)

SpecDelete == InitDelete /\ [][NextDelete]_vars

(***************************************************************************)
(* Truncation harness                                                      *)
(***************************************************************************)
MaxMid == 2

MidChars == {"a", ".", "?", "!"}

\* lengths of the run before the middle: around 0, 70% of the audio budget,
\* and the two budgets
HeadLens ==
    {0, 1} \cup {(MAX_CHARS_AUDIO * 7) \div 10 + d : d \in {-1, 0, 1}}
           \cup {MAX_CHARS_AUDIO + d : d \in {-2, -1, 0}}
           \cup {MAX_CHARS + d : d \in {-2, -1, 0}}

TailLens == {0, 1, MAX_CHARS - MAX_CHARS_AUDIO, MAX_CHARS}

\* a text is a run, a middle of MaxMid characters at most, and a run
InitTrunc ==
    /\ tText \in {Rep("a", h) \o m \o Rep("a", t) :
                     h \in HeadLens, t \in TailLens,
                     m \in UNION {[1..n -> MidChars] : n \in 0..MaxMid}}
    /\ tOut = NotRun
    /\ pStream = <<>>
    /\ pOut = ParseNotRun
    /\ ServerIdle
    /\ WizardIdle
    /\ budget = NoWorkload

ApplyTruncateExtracted ==
    /\ tOut.site = "none"
    /\ LET r == TruncateExtracted(tText)
       IN  tOut' = [site |-> "extract", out |-> r.finalText,
                    wasTruncated |-> r.wasTruncated]
    /\ UNCHANGED <<server, wizard, tText, pStream, pOut>>

ApplyTruncateForSpeech ==
    /\ tOut.site = "none"
    /\ tOut' = [site |-> "audio", out |-> TruncateForSpeech(tText),
                wasTruncated |-> Len(tText) > MAX_CHARS_AUDIO]
    /\ UNCHANGED <<server, wizard, tText, pStream, pOut>>

NextTrunc == ApplyTruncateExtracted \/ ApplyTruncateForSpeech

SpecTrunc == InitTrunc /\ [][NextTrunc]_vars

(***************************************************************************)
(* Parser harness                                                          *)
(***************************************************************************)
MaxItems == 4

MaxPage == 5

Tokens == {<<"x">>, <<"y", "z">>}

ItemAlphabet ==
    {PageItem(n) : n \in 1..MaxPage} \cup {TextItem(t) : t \in Tokens}
        \cup {ErrItem({})}


TruncIdle == tText = <<>> /\ tOut = NotRun

\* a stream: the parser delivers the marker of a page before the items of the
\* page, MaxItems further items at most, and no item at the end of the file
InitParse ==
    /\ pStream \in {<<PageItem(p)>> \o s \o <<EndItem>> :
                       p \in 1..MaxPage,
                       s \in UNION {[1..n -> ItemAlphabet] : n \in 0..MaxItems}}
    /\ pOut = ParseNotRun
    /\ TruncIdle
    /\ ServerIdle
    /\ WizardIdle
    /\ budget = NoWorkload

RunParseBuffer ==
    /\ pOut.settled = "idle"
    /\ pOut' = ParseBuffer(pStream)
    /\ UNCHANGED <<server, wizard, tText, tOut, pStream>>

NextParse == RunParseBuffer

SpecParse == InitParse /\ [][NextParse]_vars

(***************************************************************************)
(* Normalisation harness                                                   *)
(***************************************************************************)
MaxLen == 4

\* a word character, a blank, a line break, a sentence mark and a character
\* the normaliser does not allow
NormChars == {"a", " ", "\n", ".", "#"}

InitNorm ==
    /\ tText \in UNION {[1..n -> NormChars] : n \in 0..MaxLen}
    /\ tOut = NotRun
    /\ pStream = <<>>
    /\ pOut = ParseNotRun
    /\ ServerIdle
    /\ WizardIdle
    /\ budget = NoWorkload

ApplyCleanAndProcessText ==
    /\ tOut.site = "none"
    /\ tOut' = [site |-> "clean", out |-> cleanAndProcessText(tText),
                wasTruncated |-> FALSE]
    /\ UNCHANGED <<server, wizard, tText, pStream, pOut>>

NextNorm == ApplyCleanAndProcessText

SpecNorm == InitNorm /\ [][NextNorm]_vars

(***************************************************************************)
(* The wizard (src/app/page.tsx): what the user does, what the fetches     *)
(* answer                                                                  *)
(***************************************************************************)
MaxFetch == 3

MaxUploadSize == 10 * 1024 * 1024

languages == {"Hindi", "Spanish"}

\* what the user may type into a key field: nothing, blanks, a key
TypedKeys == {"", " ", "k"}

\* String.prototype.trim of a typed key
trim(k) == IF k = " " THEN "" ELSE k

canProceedFromSetup == trim(wizard.geminiApiKey) # ""

canGenerateAudio == trim(wizard.elevenlabsApiKey) # ""

\* the files a user may pick or drop: a PDF, an image, a PDF over 10MB
PickedFiles ==
    {[type |-> "application/pdf", size |-> 4096],
     [type |-> "image/png", size |-> 4096],
     [type |-> "application/pdf", size |-> MaxUploadSize + 1]}

\* what /api/extract-pdf may answer: a text, an empty text, an error with a
\* message, an error without one
ExtractAnswers ==
    {[ok |-> TRUE, text |-> <<"H", "e", "l", "l", "o">>, documentId |-> 1, pages |-> 1, error |-> ""],
     [ok |-> TRUE, text |-> <<>>, documentId |-> 1, pages |-> 1, error |-> ""],
     [ok |-> FALSE, text |-> <<>>, documentId |-> NoId, pages |-> 0, error |-> "Invalid PDF file"],
     [ok |-> FALSE, text |-> <<>>, documentId |-> NoId, pages |-> 0, error |-> ""]}

\* what /api/transcreate may answer
TranscreateAnswers ==
    {[ok |-> TRUE, transcreatedText |-> <<"H", "o", "l", "a">>, transcreationId |-> 1, tokensUsed |-> 7, error |-> ""],
     [ok |-> TRUE, transcreatedText |-> <<"H", "o", "l", "a">>, transcreationId |-> NoId, tokensUsed |-> 7, error |-> ""],
     [ok |-> FALSE, transcreatedText |-> <<>>, transcreationId |-> NoId, tokensUsed |-> 0, error |-> "Invalid Gemini API key"],
     [ok |-> FALSE, transcreatedText |-> <<>>, transcreationId |-> NoId, tokensUsed |-> 0, error |-> ""]}

\* what /api/generate-audio may answer
AudioAnswers ==
    {[ok |-> TRUE, audioData |-> "data:audio/mpeg;base64", charactersUsed |-> 4, error |-> ""],
     [ok |-> FALSE, audioData |-> "", charactersUsed |-> 0, error |-> "Invalid ElevenLabs API key"],
     [ok |-> FALSE, audioData |-> "", charactersUsed |-> 0, error |-> ""]}

Ran(op, ok) == [op |-> op, ok |-> ok]

\* fetch(...): one more request is in flight
Fetching(w, kind) ==
    [w EXCEPT !.pending = @ \cup {[kind |-> kind, n |-> w.fetches + 1]},
              !.fetches = @ + 1]

\* the file is checked, then the request is sent; the handler looks neither
\* at isProcessing nor at the step
handleFileUpload(file, op) ==
    /\ wizard.fetches < MaxFetch
    /\ wizard' =
         IF file.type # "application/pdf"
         THEN [wizard EXCEPT !.error = "Please upload a valid PDF file",
                             !.last = Ran(op, FALSE)]
         ELSE IF file.size > MaxUploadSize
         THEN [wizard EXCEPT !.error = "File size must be less than 10MB",
                             !.last = Ran(op, FALSE)]
         ELSE [Fetching(wizard, "extract") EXCEPT
                   !.isProcessing = TRUE, !.error = "",
                   !.cleared = FALSE, !.last = Ran(op, TRUE)]
    /\ UNCHANGED <<server, harness>>

\* the drop zone of the upload step takes a drop whatever isProcessing is
handleDrop(file) ==
    /\ wizard.currentStep = "upload"
    /\ handleFileUpload(file, "drop")

\* the file input of the upload step is disabled while isProcessing
handleFileSelect(file) ==
    /\ wizard.currentStep = "upload"
    /\ ~wizard.isProcessing
    /\ handleFileUpload(file, "select")

\* the key fields: Gemini at the setup step, ElevenLabs at setup and results
setGeminiApiKey(k) ==
    /\ wizard.currentStep = "setup"
    /\ wizard.geminiApiKey # k
    /\ wizard' = [wizard EXCEPT !.geminiApiKey = k, !.last = Ran("key", TRUE)]
    /\ UNCHANGED <<server, harness>>

setElevenlabsApiKey(k) ==
    /\ wizard.currentStep \in {"setup", "results"}
    /\ wizard.elevenlabsApiKey # k
    /\ wizard' = [wizard EXCEPT !.elevenlabsApiKey = k, !.last = Ran("key", TRUE)]
    /\ UNCHANGED <<server, harness>>

\* the button of the setup step
ContinueToUpload ==
    /\ wizard.currentStep = "setup"
    /\ canProceedFromSetup
    /\ wizard' = [wizard EXCEPT !.currentStep = "upload", !.last = Ran("continue", TRUE)]
    /\ UNCHANGED <<server, harness>>

handleLanguageSelect(language) ==
    /\ wizard.currentStep = "language"
    /\ wizard.selectedLanguage # language
    /\ wizard' = [wizard EXCEPT !.selectedLanguage = language,
                                !.last = Ran("language", TRUE)]
    /\ UNCHANGED <<server, harness>>

\* the button of the language step is disabled without a language and while
\* isProcessing; the handler returns early without a text or a key
handleTranscreate ==
    /\ wizard.currentStep = "language"
    /\ wizard.selectedLanguage # NoLanguage /\ ~wizard.isProcessing
    /\ wizard.fetches < MaxFetch
    /\ wizard' =
         IF wizard.extractedText = <<>> \/ wizard.geminiApiKey = ""
         THEN [wizard EXCEPT !.last = Ran("transcreate", FALSE)]
         ELSE [Fetching(wizard, "transcreate") EXCEPT
                   !.isProcessing = TRUE, !.error = "",
                   !.last = Ran("transcreate", TRUE)]
    /\ UNCHANGED <<server, harness>>

\* the button of the results step is disabled without an ElevenLabs key and
\* while isProcessing
handleGenerateAudio ==
    /\ wizard.currentStep = "results"
    /\ canGenerateAudio /\ ~wizard.isProcessing
    /\ wizard.fetches < MaxFetch
    /\ wizard' =
         IF wizard.transcreatedText = <<>> \/ wizard.selectedLanguage = NoLanguage
              \/ wizard.elevenlabsApiKey = ""
         THEN [wizard EXCEPT !.last = Ran("audio", FALSE)]
         ELSE [Fetching(wizard, "synthesize") EXCEPT
                   !.isProcessing = TRUE, !.error = "",
                   !.last = Ran("audio", TRUE)]
    /\ UNCHANGED <<server, harness>>

\* the Reset button of the header is enabled at every step; resetApp leaves
\* isProcessing, the keys and the requests in flight as they are
resetApp ==
    /\ wizard' = [wizard EXCEPT
                     !.currentStep = "setup", !.extractedText = <<>>,
                     !.selectedLanguage = NoLanguage, !.transcreatedText = <<>>,
                     !.audioUrl = "", !.documentId = NoId, !.transcreationId = NoId,
                     !.pdfInfo = NoPdfInfo, !.error = "", !.estimatedTokens = 0,
                     !.geminiTokensUsed = 0, !.elevenlabsCharsUsed = 0,
                     !.cleared = TRUE, !.last = Ran("reset", TRUE)]
    /\ UNCHANGED <<server, harness>>

\* data.error || fallback
OrElse(message, fallback) == IF message = "" THEN fallback ELSE message

\* the rest of handleFileUpload, run when its fetch settles
ExtractSettles(p, data) ==
    /\ p \in wizard.pending /\ p.kind = "extract"
    /\ wizard' =
         IF data.ok
         THEN [wizard EXCEPT
                   !.extractedText = data.text, !.documentId = data.documentId,
                   !.pdfInfo = <<[pages |-> data.pages]>>,
                   !.estimatedTokens = (Len(data.text) + 3) \div 4,
                   !.currentStep = "language", !.isProcessing = FALSE,
                   !.pending = @ \ {p}, !.last = Ran("extract", TRUE)]
         ELSE [wizard EXCEPT
                   !.error = OrElse(data.error, "Failed to extract text from PDF"),
                   !.isProcessing = FALSE,
                   !.pending = @ \ {p}, !.last = Ran("extract", FALSE)]
    /\ UNCHANGED <<server, harness>>

\* the rest of handleTranscreate, run when its fetch settles
TranscreateSettles(p, data) ==
    /\ p \in wizard.pending /\ p.kind = "transcreate"
    /\ wizard' =
         IF data.ok
         THEN [wizard EXCEPT
                   !.transcreatedText = data.transcreatedText,
                   !.transcreationId = data.transcreationId,
                   !.geminiTokensUsed = data.tokensUsed,
                   !.currentStep = "results", !.isProcessing = FALSE,
                   !.pending = @ \ {p}, !.last = Ran("transcreate.settled", TRUE)]
         ELSE [wizard EXCEPT
                   !.error = OrElse(data.error, "Failed to transcreate content"),
                   !.isProcessing = FALSE,
                   !.pending = @ \ {p}, !.last = Ran("transcreate.settled", FALSE)]
    /\ UNCHANGED <<server, harness>>

\* the rest of handleGenerateAudio, run when its fetch settles
AudioSettles(p, data) ==
    /\ p \in wizard.pending /\ p.kind = "synthesize"
    /\ wizard' =
         IF data.ok
         THEN [wizard EXCEPT
                   !.audioUrl = data.audioData,
                   !.elevenlabsCharsUsed = data.charactersUsed,
                   !.currentStep = "audio", !.isProcessing = FALSE,
                   !.pending = @ \ {p}, !.last = Ran("audio.settled", TRUE)]
         ELSE [wizard EXCEPT
                   !.error = OrElse(data.error, "Failed to generate audio"),
                   !.isProcessing = FALSE,
                   !.pending = @ \ {p}, !.last = Ran("audio.settled", FALSE)]
    /\ UNCHANGED <<server, harness>>

InitWizard ==
    /\ ServerIdle
    /\ WizardIdle
    /\ budget = NoWorkload
    /\ HarnessIdle

NextWizard ==
    \/ \E k \in TypedKeys : setGeminiApiKey(k)
    \/ \E k \in TypedKeys : setElevenlabsApiKey(k)
    \/ ContinueToUpload
    \/ \E file \in PickedFiles : handleFileSelect(file)
    \/ \E file \in PickedFiles : handleDrop(file)
    \/ \E language \in languages : handleLanguageSelect(language)
    \/ handleTranscreate
    \/ handleGenerateAudio
    \/ resetApp
    \/ \E p \in wizard.pending, data \in ExtractAnswers : ExtractSettles(p, data)
    \/ \E p \in wizard.pending, data \in TranscreateAnswers : TranscreateSettles(p, data)
    \/ \E p \in wizard.pending, data \in AudioAnswers : AudioSettles(p, data)

SpecWizard == InitWizard /\ [][NextWizard]_vars

(***************************************************************************)
(* Properties                                                              *)
(***************************************************************************)
Done(r) == reqs[r].pc = "done"

Succeeded(r) == Done(r) /\ reqs[r].resp.status = 200

FromCache(r) == Succeeded(r) /\ reqs[r].resp.cached

MinId(ids) == CHOOSE i \in ids : \A j \in ids : i <= j

MaxId(ids) == CHOOSE i \in ids : \A j \in ids : j <= i

IsPrefix(p, s) == Len(p) <= Len(s) /\ SubSeq(s, 1, Len(p)) = p

\* C1: an extract call for filename F and size S, made when a document of F
\* and S is stored, answers cached=true with the id and the text of the first
\* document stored for F and S, whatever other sizes of F are stored.
C1_SameNameAndSizeIsServedFromCache ==
    \A r \in Handlers :
        (reqs[r].route = "extract" /\ Done(r) /\ reqs[r].trace.known # {}) =>
            /\ reqs[r].resp.status = 200
            /\ reqs[r].resp.cached
            /\ reqs[r].resp.documentId = MinId(reqs[r].trace.known)
            /\ reqs[r].resp.text = documents[MinId(reqs[r].trace.known)].extracted_text

\* C2: the step that answers an extract call with cached=true leaves the
\* documents table and the temp directory as they were, and the call has run
\* no text-layer parse, no OCR fallback, no file write and no insert.
C2_CacheHitRunsNoExtraction ==
    [][\A r \in Handlers :
          (/\ reqs'[r] # reqs[r]
           /\ reqs'[r].route = "extract"
           /\ reqs'[r].pc = "done"
           /\ reqs'[r].resp.status = 200
           /\ reqs'[r].resp.cached) =>
              /\ documents' = documents
              /\ tempDir' = tempDir
              /\ reqs'[r].trace.parses = 0
              /\ reqs'[r].trace.ocrs = 0
              /\ reqs'[r].trace.writes = 0
              /\ reqs'[r].trace.inserts = 0]_vars

C2_Witness ==
    \E r \in Handlers :
        /\ reqs[r].route = "extract"
        /\ FromCache(r)
        /\ reqs[r].resp.documentId \in reqs[r].trace.known

ValidTranscreate(body) ==
    body.text # <<>> /\ body.targetLanguage # "" /\ body.apiKey # ""

\* C3, as stated: when a transcreate call for (D, L) has stored a row, a later
\* valid call for (D, L) answers cached=true and tokensUsed=0 with the id and
\* the text of that row, and has not called the language model.
C3_LaterCallReturnsTheStoredRow ==
    \A o \in Handlers, r \in Handlers :
        (/\ reqs[o].route = "transcreate" /\ Succeeded(o)
         /\ reqs[o].trace.inserts = 1
         /\ reqs[r].route = "transcreate" /\ Done(r)
         /\ ValidTranscreate(reqs[r].in)
         /\ reqs[r].in.documentId = reqs[o].in.documentId
         /\ reqs[r].in.targetLanguage = reqs[o].in.targetLanguage
         /\ reqs[o].resp.transcreationId \in reqs[r].trace.known) =>
            /\ reqs[r].resp.status = 200
            /\ reqs[r].resp.cached
            /\ reqs[r].resp.tokensUsed = 0
            /\ reqs[r].resp.transcreationId = reqs[o].resp.transcreationId
            /\ reqs[r].resp.transcreatedText = reqs[o].resp.transcreatedText
            /\ reqs[r].trace.external = 0

\* C3, amended: a valid transcreate call for (D, L), made when rows of (D, L)
\* are stored, answers cached=true and tokensUsed=0 with the id and the text
\* of a stored row of (D, L) that none of them is newer than, and does not
\* call the language model.
C3_LaterCallReturnsANewestRow ==
    \A r \in Handlers :
        (/\ reqs[r].route = "transcreate"
         /\ ValidTranscreate(reqs[r].in)
         /\ reqs[r].in.documentId # 0
         /\ reqs[r].trace.known # {}) =>
            /\ Succeeded(r)
            /\ reqs[r].resp.cached
            /\ reqs[r].resp.tokensUsed = 0
            /\ reqs[r].trace.external = 0
            /\ \E row \in Newest({transcreations[i] : i \in reqs[r].trace.known}) :
                  /\ reqs[r].resp.transcreationId = row.id
                  /\ reqs[r].resp.transcreatedText = row.transcreated_text

C3_Witness ==
    \E o \in Handlers, r \in Handlers :
        /\ reqs[o].route = "transcreate" /\ Succeeded(o)
        /\ reqs[o].trace.inserts = 1
        /\ reqs[r].route = "transcreate" /\ FromCache(r)
        /\ reqs[r].resp.transcreationId = reqs[o].resp.transcreationId
        /\ reqs[r].resp.transcreatedText = reqs[o].resp.transcreatedText

\* C4, as stated: a transcreate call for a pair that has a stored row adds
\* one row to the table.
C4_ReRequestAddsARow ==
    \A r \in Handlers :
        (/\ reqs[r].route = "transcreate" /\ Succeeded(r)
         /\ reqs[r].trace.known # {}) =>
            reqs[r].trace.inserts = 1

\* C4, amended: a transcreate call for a pair that has a stored row leaves
\* the table as it is; rows are only ever appended, by calls that found no
\* row of their pair, and no stored row is overwritten.
C4_ReRequestLeavesTheTable ==
    [][/\ Len(transcreations') >= Len(transcreations)
       /\ SubSeq(transcreations', 1, Len(transcreations)) = transcreations
       /\ \A r \in Handlers :
             (reqs'[r].route = "transcreate" /\ reqs'[r].trace.known # {}) =>
                /\ reqs'[r].trace.inserts = 0
                /\ reqs'[r] # reqs[r] => transcreations' = transcreations]_vars

C4_Witness ==
    \E r \in Handlers :
        /\ reqs[r].route = "transcreate" /\ FromCache(r)
        /\ Cardinality(reqs[r].trace.known) = 1
        /\ Len(transcreations) = 1
        /\ budget.transcreate = 0

ValidSynthesize(body) ==
    body.text # <<>> /\ body.language # "" /\ body.apiKey # ""

\* C5, as stated: when a synthesize call for transcreation T has stored an
\* audio row, a later valid call for T answers cached=true and
\* charactersUsed=0 with the stored payload, and neither calls the speech
\* service nor inserts a row.
C5_LaterCallReturnsTheStoredAudio ==
    \A o \in Handlers, r \in Handlers :
        (/\ reqs[o].route = "synthesize" /\ Succeeded(o)
         /\ reqs[o].trace.inserts = 1
         /\ reqs[r].route = "synthesize" /\ Done(r)
         /\ ValidSynthesize(reqs[r].in)
         /\ reqs[r].in.transcreationId = reqs[o].in.transcreationId
         /\ reqs[o].resp.audioId \in reqs[r].trace.known) =>
            /\ reqs[r].resp.status = 200
            /\ reqs[r].resp.cached
            /\ reqs[r].resp.charactersUsed = 0
            /\ reqs[r].resp.audioData = reqs[o].resp.audioData
            /\ reqs[r].trace.external = 0
            /\ reqs[r].trace.inserts = 0

\* C5, amended: a valid synthesize call for transcreation T, made when audio
\* rows of T are stored, answers cached=true and charactersUsed=0 with the
\* payload of a stored row of T that none of them is newer than, and neither
\* calls the speech service nor inserts a row.
C5_LaterCallReturnsANewestAudio ==
    \A r \in Handlers :
        (/\ reqs[r].route = "synthesize"
         /\ ValidSynthesize(reqs[r].in)
         /\ reqs[r].in.transcreationId # 0
         /\ reqs[r].trace.known # {}) =>
            /\ Succeeded(r)
            /\ reqs[r].resp.cached
            /\ reqs[r].resp.charactersUsed = 0
            /\ reqs[r].trace.external = 0
            /\ reqs[r].trace.inserts = 0
            /\ \E row \in Newest({audio_files[i] : i \in reqs[r].trace.known}) :
                  /\ reqs[r].resp.audioId = row.id
                  /\ reqs[r].resp.audioData = row.audio_data

C5_Witness ==
    \E o \in Handlers, r \in Handlers :
        /\ reqs[o].route = "synthesize" /\ Succeeded(o)
        /\ reqs[o].trace.inserts = 1
        /\ reqs[r].route = "synthesize" /\ FromCache(r)
        /\ reqs[r].resp.audioId = reqs[o].resp.audioId
        /\ reqs[r].resp.audioData = reqs[o].resp.audioData

\* the id of the row a cache hit answered from
ReturnedId(r) ==
    CASE reqs[r].route = "extract"     -> reqs[r].resp.documentId
      [] reqs[r].route = "transcreate" -> reqs[r].resp.transcreationId
      [] reqs[r].route = "synthesize"  -> reqs[r].resp.audioId

\* C6: a call answered from the cache, on any of the three routes, returns
\* the row of its key that was created last.
C6_CacheReadReturnsTheLastCreatedRow ==
    \A r \in Handlers :
        FromCache(r) => ReturnedId(r) = MaxId(reqs[r].trace.known)

\* C7: in an extract call whose text-layer parse completed, the OCR fallback
\* has been invoked exactly when the trimmed text-layer output is shorter than
\* 50 characters.
C7_OcrIffTextLayerShorterThan50 ==
    \A r \in Handlers :
        (reqs[r].route = "extract" /\ reqs[r].trace.textLayer >= 0) =>
            (reqs[r].trace.ocrs > 0 <=> reqs[r].trace.textLayer < 50)

C7_Witness ==
    \E r \in Handlers, o \in Handlers :
        /\ reqs[r].route = "extract" /\ reqs[r].trace.textLayer = 50
        /\ Succeeded(r) /\ reqs[r].trace.ocrs = 0
        /\ reqs[o].route = "extract" /\ reqs[o].trace.textLayer = 49
        /\ reqs[o].trace.ocrs = 1

\* the position of the first marker of a page beyond the cap, 0 without one
FirstBeyondCap(stream) ==
    LET beyond == {i \in 1..Len(stream) :
                      stream[i].kind = "page" /\ stream[i].page > 3}
    IN  IF beyond = {} THEN 0 ELSE MinId(beyond)

\* the text items among the first n items, in order, a space after each
RECURSIVE TextOf(_, _)
TextOf(stream, n) ==
    IF n = 0 THEN <<>>
    ELSE TextOf(stream, n - 1)
            \o (IF stream[n].kind = "text" THEN stream[n].text \o <<" ">> ELSE <<>>)

\* C8: for a stream with a marker of a page beyond 3, the text the text-layer
\* extraction returns is the text items delivered before the first such
\* marker, in order and space-separated; nothing delivered after it is part
\* of the result.
C8_NoTextBeyondPage3 ==
    (pOut.settled = "resolved" /\ FirstBeyondCap(pStream) > 0) =>
        pOut.value = Trim(TextOf(pStream, FirstBeyondCap(pStream) - 1))

C8_Witness ==
    /\ pOut.settled = "resolved"
    /\ FirstBeyondCap(pStream) > 0
    /\ pOut.value # <<>>
    /\ \E i \in 1..Len(pStream) :
          i > FirstBeyondCap(pStream) /\ pStream[i].kind = "text"

EndsWithEllipsis(s) ==
    Len(s) >= 3 /\ SubSeq(s, Len(s) - 2, Len(s)) = <<".", ".", ".">>

\* C9: at the extraction site an input longer than 2200 gives a prefix of it
\* of at most 2200 characters; at the audio site an input longer than 2000
\* gives a prefix of it of at most 2000 characters, or such a prefix followed
\* by "..."; an input within the budget is returned as it is.
C9_TruncationBounds ==
    /\ tOut.site = "extract" =>
          IF Len(tText) > 2200
          THEN Len(tOut.out) <= 2200 /\ IsPrefix(tOut.out, tText)
          ELSE tOut.out = tText
    /\ tOut.site = "audio" =>
          IF Len(tText) > 2000
          THEN \/ Len(tOut.out) <= 2000 /\ IsPrefix(tOut.out, tText)
               \/ /\ EndsWithEllipsis(tOut.out)
                  /\ Len(tOut.out) <= 2000 + 3
                  /\ IsPrefix(SubSeq(tOut.out, 1, Len(tOut.out) - 3), tText)
          ELSE tOut.out = tText

C9_Witness ==
    /\ tOut.site = "audio"
    /\ Len(tText) > 2000
    /\ EndsWithEllipsis(tOut.out)
    /\ Len(tOut.out) = 2000 + 3

\* C10: every successful extract answer, from the cache or fresh, and every
\* successful synthesize answer carries the truncation flag, the length
\* before truncation and the length after it.
C10_EveryAnswerReportsTruncation ==
    \A r \in Handlers :
        (Succeeded(r) /\ reqs[r].route \in {"extract", "synthesize"}) =>
            IF reqs[r].route = "extract"
            THEN {"wasTruncated", "originalLength", "extractedLength"}
                    \subseteq DOMAIN reqs[r].resp
            ELSE {"wasTruncated", "originalLength", "charactersUsed"}
                    \subseteq DOMAIN reqs[r].resp

\* C11: cleaning is idempotent: for every text t, cleaning the cleaned text
\* gives the cleaned text again, also when a character that is not allowed
\* sits between spaces or next to a sentence mark.
C11_CleaningIsIdempotent ==
    tOut.site = "clean" => cleanAndProcessText(tOut.out) = tOut.out

\* 101-133: the upload passes the four checks made before the cache check
PassesValidation(file) ==
    /\ file.present
    /\ file.type = "application/pdf"
    /\ file.size <= MaxFileSize
    /\ file.size >= MinFileSize

InvalidPdfResponse ==
    ErrorResponse(400, "Invalid PDF file format. Please ensure you uploaded a valid PDF.")

\* C12: every extract call whose bytes do not begin with "%PDF" ends with
\* status 400 and the invalid-PDF message and returns neither a text nor a
\* documentId, whatever the store holds for the filename and size.
C12_NonPdfBytesAreRejected ==
    \A r \in Handlers :
        (/\ reqs[r].route = "extract" /\ Done(r)
         /\ PassesValidation(reqs[r].in)
         /\ Pdf(reqs[r].in.pdf).header # PdfMagic) =>
            /\ reqs[r].resp = InvalidPdfResponse
            /\ {"text", "documentId"} \cap DOMAIN reqs[r].resp = {}

\* the request was turned away by the validation of its route
InvalidInput(q) ==
    CASE q.route = "extract"     -> ~PassesValidation(q.in)
      [] q.route = "transcreate" -> ~ValidTranscreate(q.in)
      [] q.route = "synthesize"  -> ~ValidSynthesize(q.in)
      [] OTHER -> FALSE

\* C13: an extract call without a file, with a type other than
\* application/pdf, or with a size above 10 MiB or below 100 bytes, and a
\* transcreate or synthesize call that lacks the text, the language or the
\* API key, is answered with status 400 at once: no cache lookup, no
\* text-layer parse, no OCR, no file written, no call to an external service,
\* no row inserted.
C13_InvalidInputIsRejectedFirst ==
    \A r \in Handlers :
        InvalidInput(reqs[r]) =>
            /\ Done(r)
            /\ reqs[r].resp.status = 400
            /\ reqs[r].trace.lookups = 0
            /\ reqs[r].trace.parses = 0
            /\ reqs[r].trace.ocrs = 0
            /\ reqs[r].trace.writes = 0
            /\ reqs[r].trace.external = 0
            /\ reqs[r].trace.inserts = 0

\* a file of the wrong type is turned away although a document of its name
\* and size is stored
C13_Witness ==
    \E r \in Handlers :
        /\ reqs[r].route = "extract" /\ Done(r)
        /\ reqs[r].in.present /\ reqs[r].in.type # "application/pdf"
        /\ reqs[r].trace.known # {}
        /\ reqs[r].resp.status = 400

\* C14: no partial success: every successful extract answer carries a
\* non-empty text and every stored document a non-empty extracted_text; when
\* neither the text layer nor OCR gives text, also when the OCR output
\* normalises to the empty string, the call fails and stores nothing.
C14_NoEmptyTextIsStoredOrReturned ==
    /\ \A r \in Handlers :
          (reqs[r].route = "extract" /\ Succeeded(r)) => reqs[r].resp.text # <<>>
    /\ \A i \in 1..Len(documents) : documents[i].extracted_text # <<>>

\* the parser reports an error somewhere in the stream of the file
ParserFails(content) ==
    \E i \in 1..Len(Pdf(content).items) : Pdf(content).items[i].kind = "err"

\* C15: whenever the text-layer parser reports an error, at any point of the
\* stream, the call ends in a failure answer, OCR is not attempted and no
\* document is stored.
C15_ParserErrorFailsTheCall ==
    \A r \in Handlers :
        (/\ reqs[r].route = "extract" /\ reqs[r].trace.parses = 1
         /\ ParserFails(reqs[r].in.pdf)) =>
            /\ Done(r)
            /\ reqs[r].resp.status # 200
            /\ reqs[r].trace.ocrs = 0
            /\ reqs[r].trace.inserts = 0

\* the two answers that say the text could not be extracted, 236 and 313
CouldNotExtract ==
    {ErrorResponse(400, "Could not extract text from PDF. The document may be empty, corrupted, or an unsupported format."),
     ErrorResponse(400, "Could not extract text from PDF. The PDF might be image-based or contain mostly graphics.")}

\* C16: when the OCR fallback throws outside its page loop (the temporary
\* file cannot be written), the call is answered as "could not extract
\* text", the class of the empty OCR result, not as a generic failure.
C16_OcrThrowIsCouldNotExtract ==
    \A r \in Handlers :
        (/\ reqs[r].route = "extract" /\ Done(r)
         /\ reqs[r].trace.ocrs = 1 /\ reqs[r].trace.writes = 0) =>
            reqs[r].resp \in CouldNotExtract

\* C17: deleting a document removes its subtree, and in every reachable
\* state of the store each transcreation references an existing document
\* and each audio row an existing transcreation.
C17_NoDanglingReferences ==
    /\ \A t \in Rows(transcreations) : DocumentExists(t.document_id)
    /\ \A a \in Rows(audio_files) : TranscreationExists(a.transcreation_id)

\* a document was deleted that had a transcreation with an audio row, and
\* another document is still stored
C17_Witness ==
    /\ budget.name = "delete" /\ budget.delete < MaxDelete
    /\ sqlite_sequence.audio_files > 0 /\ audio_files = <<>>
    /\ sqlite_sequence.transcreations > 0 /\ transcreations = <<>>
    /\ Len(documents) = 1

\* the positions (from 1) of the characters of `marks` among the first n of s
MarksWithin(s, n, marks) == {i \in 1..MinOf(n, Len(s)) : s[i] \in marks}

C19_CutAtAMarkFrom70Percent ==
    (tOut.site = "audio" /\ Len(tText) > 2000) =>
        LET marks == MarksWithin(tText, 2000, {".", "?", "!"})
            c     == IF marks = {} THEN -1 ELSE MaxId(marks) - 1
        IN  IF c * 10 >= 2000 * 7
            THEN tOut.out = SubSeq(tText, 1, c + 1)
            ELSE tOut.out = SubSeq(tText, 1, 2000) \o <<".", ".", ".">>

\* C19, amended: the mark is taken only if it lies beyond 70% of the budget
\* (c > 1400, at least 1401 characters before it); a mark at index 1400 or
\* before, or no mark, gives the first 2000 characters followed by "...".
C19_CutAtAMarkBeyond70Percent ==
    (tOut.site = "audio" /\ Len(tText) > 2000) =>
        LET marks == MarksWithin(tText, 2000, {".", "?", "!"})
            c     == IF marks = {} THEN -1 ELSE MaxId(marks) - 1
        IN  IF c * 10 > 2000 * 7
            THEN tOut.out = SubSeq(tText, 1, c + 1)
            ELSE tOut.out = SubSeq(tText, 1, 2000) \o <<".", ".", ".">>

\* the last mark is at index 1400 exactly, and the hard cut is sent
C19_Witness ==
    /\ tOut.site = "audio" /\ Len(tText) > 2000
    /\ MarksWithin(tText, 2000, {".", "?", "!"}) # {}
    /\ MaxId(MarksWithin(tText, 2000, {".", "?", "!"})) = 1401
    /\ tOut.out = SubSeq(tText, 1, 2000) \o <<".", ".", ".">>

\* C20: on every exit path of the OCR fallback (text read, nothing read,
\* pages that failed, an error thrown) the temporary PDF of the call does
\* not exist any more when the call finishes.
C20_TempPdfIsGoneWhenTheCallFinishes ==
    [][\A r \in Handlers :
          (/\ reqs'[r] # reqs[r]
           /\ reqs'[r].route = "extract"
           /\ reqs'[r].pc = "done"
           /\ reqs'[r].trace.ocrs = 1) =>
              reqs'[r].loc.tempPdfPath \notin DOMAIN tempDir']_vars

\* a call that wrote its temporary PDF and read text from it has finished,
\* and the file is gone
C20_Witness ==
    \E r \in Handlers :
        /\ reqs[r].route = "extract" /\ Succeeded(r)
        /\ reqs[r].trace.ocrs = 1 /\ reqs[r].trace.writes = 1
        /\ reqs[r].loc.tempPdfPath \notin DOMAIN tempDir

\* the page texts that are not blank, each trimmed and followed by an empty
\* line, one after the other
RECURSIVE JoinPages(_)
JoinPages(texts) ==
    IF texts = <<>> THEN <<>>
    ELSE JoinPages(SubSeq(texts, 1, Len(texts) - 1))
            \o (IF Trim(texts[Len(texts)]) = <<>> THEN <<>>
                ELSE Trim(texts[Len(texts)]) \o <<"\n", "\n">>)

\* the request ran the page loop of the OCR fallback
RanPageLoop(q) == q.route = "extract" /\ q.trace.ocrs = 1 /\ q.trace.writes = 1

\* C21: the OCR fallback attempts pages 1, 2 and 3 in that order, one at a
\* time, and all three whatever failed on an earlier page; its result is the
\* non-blank page texts joined in page order.
C21_AllThreePagesInOrder ==
    \A r \in Handlers :
        RanPageLoop(reqs[r]) =>
            /\ IsPrefix(reqs[r].trace.pages, <<1, 2, 3>>)
            /\ reqs[r].pc \in {"convert", "recognize"} =>
                  /\ reqs[r].loc.pageNum \in 1..3
                  /\ reqs[r].trace.pages =
                        [i \in 1..(reqs[r].loc.pageNum
                                     - (IF reqs[r].pc = "convert" THEN 1 ELSE 0)) |-> i]
            /\ Done(r) =>
                  /\ reqs[r].trace.pages = <<1, 2, 3>>
                  /\ Trim(reqs[r].loc.extractedText) = Trim(JoinPages(reqs[r].trace.texts))

\* the first page could not be rendered, the second could not be recognised,
\* the third was read and its text is the result
C21_Witness ==
    \E r \in Handlers :
        /\ RanPageLoop(reqs[r]) /\ Succeeded(r)
        /\ reqs[r].in.pdf = "patchy"
        /\ reqs[r].trace.pages = <<1, 2, 3>>
        /\ Len(reqs[r].trace.texts) = 1

\* no request is inside the page loop of the OCR fallback
NoOcrRunning == \A r \in Handlers : reqs[r].pc \notin {"convert", "recognize"}

\* C22: every page image the OCR fallback rendered is deleted before the next
\* page is processed: once the fallback has finished no rendered image is
\* left on disk, also for a page whose recognition failed.
C22_NoPageImageIsLeft ==
    NoOcrRunning => \A path \in DOMAIN tempDir : path.kind # "png"

\* C23: two extract requests that run the OCR fallback at the same time do
\* not interfere through the file system: the temporary PDF a request renders
\* and the page images it recognises hold its own upload and no other.
C23_OcrReadsOnlyItsOwnFiles ==
    \A r \in Handlers :
        RanPageLoop(reqs[r]) => reqs[r].trace.sources \subseteq {reqs[r].in.pdf}

\* an upload of the content, handled alone with a working disk, is answered
\* with a text: its text layer is long enough, or one of its first three
\* pages can be rendered and recognised and is not blank
Extractable(content) ==
    LET pdf == Pdf(content)
        st  == ParseBuffer(pdf.items)
    IN  /\ pdf.header = PdfMagic
        /\ st.settled = "resolved"
        /\ \/ ~NeedsOCR(st.value)
           \/ \E n \in 1..MinOf(3, Len(pdf.scan)) :
                 /\ pdf.scan[n].render = "ok" /\ pdf.scan[n].ocr = "ok"
                 /\ Trim(pdf.scan[n].text) # <<>>

\* the request looked its key up and no row of the key was stored
MissedEmptyCache(q) == q.trace.lookups = 1 /\ q.trace.known = {}

\* C24: when two requests for one cache key (two extract calls of one
\* filename and size, two transcreate calls of one document and language)
\* interleave so that both miss the cache, both complete successfully and
\* both append a row, and a later request for the key is a cache hit that
\* returns the content of one of those rows.
C24_ConcurrentMissesBothSucceed ==
    /\ \A o \in Handlers, r \in Handlers :
          (/\ o # r
           /\ reqs[o].route = "extract" /\ reqs[r].route = "extract"
           /\ Done(o) /\ Done(r)
           /\ PassesValidation(reqs[o].in) /\ reqs[r].in = reqs[o].in
           /\ MissedEmptyCache(reqs[o]) /\ MissedEmptyCache(reqs[r])
           /\ Extractable(reqs[o].in.pdf)
           /\ reqs[o].trace.writes = reqs[o].trace.ocrs
           /\ reqs[r].trace.writes = reqs[r].trace.ocrs) =>
              /\ Succeeded(o) /\ Succeeded(r)
              /\ reqs[o].trace.inserts = 1 /\ reqs[r].trace.inserts = 1
    /\ \A o \in Handlers, r \in Handlers :
          (/\ o # r
           /\ reqs[o].route = "transcreate" /\ reqs[r].route = "transcreate"
           /\ Succeeded(o) /\ Succeeded(r)
           /\ reqs[r].in.documentId = reqs[o].in.documentId
           /\ reqs[r].in.targetLanguage = reqs[o].in.targetLanguage
           /\ MissedEmptyCache(reqs[o]) /\ MissedEmptyCache(reqs[r])) =>
              reqs[o].trace.inserts = 1 /\ reqs[r].trace.inserts = 1
    /\ \A r \in Handlers :
          (/\ reqs[r].route = "extract" /\ Done(r)
           /\ PassesValidation(reqs[r].in)
           /\ Cardinality(reqs[r].trace.known) >= 2) =>
              /\ FromCache(r)
              /\ \E i \in reqs[r].trace.known :
                    reqs[r].resp.text = documents[i].extracted_text
    /\ \A r \in Handlers :
          (/\ reqs[r].route = "transcreate" /\ Done(r)
           /\ ValidTranscreate(reqs[r].in)
           /\ Cardinality(reqs[r].trace.known) >= 2) =>
              /\ FromCache(r)
              /\ \E i \in reqs[r].trace.known :
                    reqs[r].resp.transcreatedText = transcreations[i].transcreated_text

\* C25: upstream failures are reported by kind: bad credentials as 401, a
\* rate or credit limit as 429, a model that is unavailable as 503
\* (transcreate), a voice that is unavailable as 400 (synthesize), whatever
\* else the message of the upstream error contains.
C25_FailuresAreReportedByKind ==
    \A r \in Handlers :
        (Done(r) /\ reqs[r].route \in {"transcreate", "synthesize"}) =>
            /\ reqs[r].trace.upstream = "auth" => reqs[r].resp.status = 401
            /\ reqs[r].trace.upstream = "quota" => reqs[r].resp.status = 429
            /\ reqs[r].trace.upstream = "unavailable" =>
                  reqs[r].resp.status =
                      IF reqs[r].route = "transcreate" THEN 503 ELSE 400

\* `after` is `before` with one row appended
OneRowAppended(before, after) ==
    Len(after) = Len(before) + 1 /\ SubSeq(after, 1, Len(before)) = before

\* C26: a call that ends in an error answer leaves the three tables as they
\* were; a row is written only by a call that answers success with
\* cached=false in the same step, and it is one row appended to one table.
C26_OnlyFreshSuccessWrites ==
    [][/\ \A r \in Handlers :
            (/\ reqs'[r] # reqs[r]
             /\ reqs'[r].pc = "done"
             /\ reqs'[r].resp.status # 200) =>
                /\ <<documents, transcreations, audio_files>>' =
                      <<documents, transcreations, audio_files>>
                /\ reqs'[r].trace.inserts = 0
       /\ <<documents, transcreations, audio_files>>' #
             <<documents, transcreations, audio_files>> =>
             /\ \E r \in Handlers :
                   /\ reqs'[r] # reqs[r]
                   /\ reqs'[r].pc = "done"
                   /\ reqs'[r].resp.status = 200
                   /\ ~reqs'[r].resp.cached
                   /\ reqs'[r].trace.inserts = 1
             /\ \/ /\ OneRowAppended(documents, documents')
                   /\ UNCHANGED <<transcreations, audio_files>>
                \/ /\ OneRowAppended(transcreations, transcreations')
                   /\ UNCHANGED <<documents, audio_files>>
                \/ /\ OneRowAppended(audio_files, audio_files')
                   /\ UNCHANGED <<documents, transcreations>>]_vars

\* a call that ran the OCR fallback ended in an error while a document is
\* stored, and wrote nothing
C26_Witness ==
    \E r \in Handlers :
        /\ RanPageLoop(reqs[r]) /\ Done(r)
        /\ reqs[r].resp.status = 400
        /\ reqs[r].trace.inserts = 0
        /\ documents # <<>>

\* the call carries no id of a parent row: a transcreate call without
\* documentId, a synthesize call without transcreationId
WithoutParent(q) ==
    \/ q.route = "transcreate" /\ q.in.documentId = 0
    \/ q.route = "synthesize" /\ q.in.transcreationId = 0

\* C27: a transcreate call without documentId and a synthesize call without
\* transcreationId never reads the cache and never writes a row; when its
\* body is valid it calls the external service, and when that answers, the
\* call returns cached=false with a null id; the store is left unchanged.
C27_WithoutParentNoCacheNoRow ==
    [][\A r \in Handlers :
          (reqs'[r] # reqs[r] /\ WithoutParent(reqs'[r])) =>
              /\ <<documents, transcreations, audio_files>>' =
                    <<documents, transcreations, audio_files>>
              /\ reqs'[r].trace.lookups = 0
              /\ reqs'[r].trace.inserts = 0
              /\ ~InvalidInput(reqs'[r]) => reqs'[r].trace.external = 1
              /\ (reqs'[r].pc = "done" /\ ~InvalidInput(reqs'[r])) =>
                    IF reqs'[r].trace.upstream = "none"
                    THEN /\ reqs'[r].resp.status = 200
                         /\ ~reqs'[r].resp.cached
                         /\ ReturnedId(r)' = 0
                    ELSE reqs'[r].resp.status # 200]_vars

\* a transcreate call without documentId was answered by the model while a
\* transcreation is stored that a lookup could have found
C27_Witness ==
    \E r \in Handlers :
        /\ reqs[r].route = "transcreate" /\ reqs[r].in.documentId = 0
        /\ Succeeded(r)
        /\ \E t \in Rows(transcreations) :
              t.target_language = reqs[r].in.targetLanguage

StepIndex(step) == CHOOSE i \in 1..Len(Steps) : Steps[i] = step

Settled == {"extract", "transcreate.settled", "audio.settled"}

\* the request whose success enters a step
EnteredBy(step) ==
    CASE step = "language" -> "extract"
      [] step = "results" -> "transcreate.settled"
      [] step = "audio" -> "audio.settled"
      [] OTHER -> "continue"

\* C28: the step changes only to the next step of setup, upload, language,
\* results, audio, or to setup by resetApp; upload is entered only with a
\* Gemini key that is not blank; language, results and audio are entered only
\* by the success of the extract, transcreate and synthesize request; a failed
\* request leaves the step as it was and sets the error message; when a
\* request handler finishes, isProcessing is false.
C28_StepsFollowTheOrder ==
    [][LET from == wizard.currentStep
           to == wizard'.currentStep
           ran == wizard'.last
       IN  /\ from # to =>
                 /\ \/ to = "setup" /\ ran.op = "reset"
                    \/ StepIndex(to) = StepIndex(from) + 1
                 /\ to # "setup" => ran = Ran(EnteredBy(to), TRUE)
                 /\ to = "upload" => canProceedFromSetup
           /\ (ran.op \in Settled /\ wizard'.pending # wizard.pending) =>
                 /\ ~wizard'.isProcessing
                 /\ ~ran.ok => from = to /\ wizard'.error # ""]_vars

\* C29: at most one request is in flight, and no step taken while isProcessing
\* is true starts a request.
C29_OneRequestInFlight ==
    [][/\ Cardinality(wizard'.pending) <= 1
       /\ wizard.isProcessing => wizard'.pending \subseteq wizard.pending]_vars

\* what resetApp clears
Cleared ==
    /\ wizard.extractedText = <<>>
    /\ wizard.documentId = NoId
    /\ wizard.transcreationId = NoId
    /\ wizard.transcreatedText = <<>>
    /\ wizard.audioUrl = ""
    /\ wizard.estimatedTokens = 0
    /\ wizard.geminiTokensUsed = 0
    /\ wizard.elevenlabsCharsUsed = 0

\* C30: from resetApp until the user starts an upload, the wizard is at the
\* setup step (or at the upload step the user continued to) and the extracted
\* text, the ids, the transcreated text, the audio and the usage counters are
\* cleared, whatever request settles meanwhile.
C30_ResetStaysReset ==
    wizard.cleared => wizard.currentStep \in {"setup", "upload"} /\ Cleared

====
